---------------------------- MODULE Spec2Model ----------------------------
(***************************************************************************)
(* A model of the call-assessment pipeline of hackathon_lumina:            *)
(*   emotion_analyzer.py / emotion_analyzer_ai.py  (sentiment estimator),  *)
(*   resolution_detector.py                        (resolution detector),  *)
(*   scoring_engine.py                             (scoring engine).       *)
(*                                                                         *)
(* Conventions.                                                            *)
(*  - A text is a sequence of fragments.  A fragment is a piece of text    *)
(*    (written in an ASCII transliteration of the Russian / Kazakh of the  *)
(*    source); the empty text is << >>.  Python's `kw in text` is          *)
(*    modelled by In(kw, text): kw is a substring of some fragment, as     *)
(*    tabulated in SubstringsOf.  str.lower() is modelled by Lower.        *)
(*  - Python floats are modelled by integers in thousandths: a confidence  *)
(*    0.5 is 500, a score 52.5 is 52500.  Every product and sum of the     *)
(*    source stays exact at this scale for the inputs enumerated here.     *)
(*  - A Python dict is a record; a key the dict does not have is a field   *)
(*    the record does not have.  None is the string "None".                *)
(***************************************************************************)
EXTENDS Integers, Sequences, FiniteSets, TLC

VARIABLES
  analyzer_class,      \* class of the module-level emotion_analyzer object
  emotion_classifier,  \* EmotionAnalyzer.emotion_classifier
  sentiment_model,     \* EmotionAnalyzer.sentiment_model
  sentiment_tokenizer, \* EmotionAnalyzer.sentiment_tokenizer
  calls,               \* number of analyze_emotions[_ai] calls made so far
  loads,               \* history: load attempts / failures of the two models
  last,                \* history: what the last analyzer call did and returned
  fn,                  \* pure-function harness: the function under evaluation
  args,                \* pure-function harness: its arguments
  ret,                 \* pure-function harness: its result ("pending" before)
  scoring_engine,      \* the module-level ScoringEngine object (its weights)
  scored,              \* history: the calls the scoring engine has served
  pipeline             \* process_call_assessment: its locals and position,
                       \* the data directory, the external-model call counts

vars == << analyzer_class, emotion_classifier, sentiment_model,
           sentiment_tokenizer, calls, loads, last, fn, args, ret,
           scoring_engine, scored, pipeline >>

analyzer_vars == << analyzer_class, emotion_classifier, sentiment_model,
                    sentiment_tokenizer, calls, loads, last >>

harness_vars == << fn, args, ret >>

engine_vars == << scoring_engine, scored >>

pipeline_vars == << pipeline >>

(***************************************************************************)
(* Bounds of the model.                                                    *)
(***************************************************************************)
MaxCalls == 2          \* analyzer calls per process that the model follows
MaxTextLen == 2        \* fragments in a text given to a pure function
MaxInterruptions == 10 \* largest interruption count given to the scorer
MaxUtterances == 2     \* segments given to separate_speakers
MaxSegments == 3       \* segments given to a timing function
MaxScored == 3         \* calls one scoring engine serves

Min(a, b) == IF a < b THEN a ELSE b
Max(a, b) == IF a > b THEN a ELSE b

(***************************************************************************)
(* Text.                                                                   *)
(***************************************************************************)
\* str.lower() on one fragment: only the capitalised fragments change.
LowerFragment(f) ==
  CASE f = "Spasibo"      -> "spasibo"
    [] f = "Zdravstvuyte" -> "zdravstvuyte"
    [] f = "IDIOT"        -> "idiot"
    [] f = "Agent"        -> "agent"
    [] f = "SPEAKER_00"   -> "speaker_00"
    [] f = "Customer:"    -> "customer:"
    [] f = "Zdravstvuyte, chem mogu pomoch?"
         -> "zdravstvuyte, chem mogu pomoch?"
    [] f = "U menya problema s kartoy" -> "u menya problema s kartoy"
    [] f = "Ponimayu, reshim" -> "ponimayu, reshim"
    [] f = "Ponimayu, pomogu reshit" -> "ponimayu, pomogu reshit"
    [] f = "Spasibo za obrashchenie" -> "spasibo za obrashchenie"
    [] f = "Do svidaniya" -> "do svidaniya"
    [] OTHER              -> f

\* str.lower() on a text.
Lower(text) == [i \in DOMAIN text |-> LowerFragment(text[i])]

\* The lexicon entries that are substrings of a (lower-case) fragment.
\* "nedovolen" holds "dovolen", "ne resheno" holds "resheno",
\* "ne ponimayu" holds "ponimayu", "pomogli"/"pomogu"/"pomogite" hold "pomog",
\* "salemetsiz be" holds "salem".
SubstringsOf(f) ==
  CASE f = "spasibo"   -> {"spasibo"}
    [] f = "spasibo, horosho, otlichno, ponyatno, pomogli"
         -> {"spasibo", "horosho", "otlichno", "ponyatno", "pomogli", "pomog"}
    [] f = "problema"    -> {"problema"}
    [] f = "nedovolen"   -> {"nedovolen", "dovolen"}
    [] f = "ne rabotaet" -> {"ne rabotaet"}
    [] f = "ploho, uzhasno, zloy, razocharovan, bespolezno"
         -> {"ploho", "uzhasno", "zloy", "razocharovan", "bespolezno"}
    [] f = "rahmet"      -> {"rahmet"}
    [] f = "zhaman"      -> {"zhaman"}
    [] f = "ne resheno"  -> {"ne resheno", "resheno"}
    [] f = "chastichno"  -> {"chastichno"}
    [] f = "ne pomoglo"  -> {"ne pomoglo", "pomog"}
    [] f = "gotovo"      -> {"gotovo"}
    [] f = "bolmady"     -> {"bolmady"}
    [] f = "sheshildi"   -> {"sheshildi"}
    [] f = "zdravstvuyte" -> {"zdravstvuyte"}
    [] f = "ponimayu"    -> {"ponimayu"}
    [] f = "ne ponimayu" -> {"ne ponimayu", "ponimayu"}
    [] f = "idiot"       -> {"idiot"}
    [] f = "aqymaq"      -> {"aqymaq"}
    [] f = "otinemin"    -> {"otinemin"}
    [] f = "ponimayu vashu problemu"
         -> {"ponimayu vashu problemu", "ponimayu"}
    [] f = "ponimayu, yasno, konechno, pomogu, razberemsya, obyasnyu"
         -> {"ponimayu", "yasno", "konechno", "pomogu", "razberemsya",
             "obyasnyu", "pomog"}
    [] f = "zdravstvuyte, spasibo, pozhaluysta, izvinite, blagodaryu, razreshite, pozvolte"
         -> {"zdravstvuyte", "spasibo", "pozhaluysta", "izvinite",
             "blagodaryu", "razreshite", "pozvolte"}
    [] f = "ne znayu, ne ponimayu, ne mogu, ne poluchaetsya, slozhno"
         -> {"ne znayu", "ne ponimayu", "ponimayu", "ne mogu",
             "ne poluchaetsya", "slozhno"}
    [] f = "blin, chert, durak" -> {"blin", "chert", "durak"}
    [] f = "budte dobry, ne mogli by, esli mozhno, proshu vas"
         -> {"budte dobry", "ne mogli by", "esli mozhno", "proshu vas"}
    [] f = "sochuvstvuyu, ponimayu vashu situatsiyu, izvinite za neudobstva, ponimayu vashu problemu"
         -> {"sochuvstvuyu", "ponimayu vashu situatsiyu",
             "izvinite za neudobstva", "ponimayu vashu problemu",
             "ponimayu", "izvinite"}
    [] f = "agent"       -> {"agent"}
    [] f = "operator"    -> {"operator"}
    [] f = "caller"      -> {"caller"}
    [] f = "customer"    -> {"customer"}
    [] f = "speaker_00"  -> {"speaker_00"}
    [] f = "agent:"      -> {"agent:", "agent"}
    [] f = "customer:"   -> {"customer:", "customer"}
    [] f = "zdravstvuyte, chem mogu pomoch?"
         -> {"zdravstvuyte", "chem mogu pomoch"}
    [] f = "u menya problema s kartoy" -> {"u menya problema", "problema"}
    [] f = "u menya problema" -> {"u menya problema", "problema"}
    [] f = "ponimayu, reshim" -> {"ponimayu", "reshim"}
    [] f = "ponimayu, pomogu reshit" -> {"ponimayu", "pomogu", "pomog"}
    [] f = "spasibo za obrashchenie" -> {"spasibo"}
    [] f = "spasibo za zvonok" -> {"spasibo za zvonok", "spasibo"}
    [] f = "do svidaniya" -> {"do svidaniya"}
    [] f = "pomogite"    -> {"pomogite", "pomog"}
    [] f = "salemetsiz be" -> {"salemetsiz be", "salem"}
    [] f = "sau bolynyz" -> {"sau bolynyz"}
    [] OTHER -> {}

\* Python's `kw in text` for a text already lower-cased.
In(kw, text) == \E i \in DOMAIN text : kw \in SubstringsOf(text[i])

\* `not text or not text.strip()`: the text is empty or whitespace only.
IsBlank(text) == \A i \in DOMAIN text : text[i] = " "

\* sum(1 for word in lexicon if word in text): a lexicon is a Python list, so
\* an entry listed twice counts twice.
RECURSIVE CountHits(_, _)
CountHits(lexicon, text) ==
  IF lexicon = << >> THEN 0
  ELSE (IF In(Head(lexicon), text) THEN 1 ELSE 0) + CountHits(Tail(lexicon), text)

\* Variant of GetLang that falls back to the Kazakh lexicon.
GetLangDefaultKazakh(lexicons, language) ==
  IF language \in DOMAIN lexicons THEN lexicons[language] ELSE lexicons["kk"]

\* dict.get(language, dict["ru"]) on a language -> lexicon mapping.
GetLang(lexicons, language) ==
  IF language \in DOMAIN lexicons THEN lexicons[language] ELSE lexicons["ru"]

Languages == {"ru", "kk", "en"}

Sentiments == {"positive", "negative", "neutral"}

(***************************************************************************)
(* Sentiment estimator: emotion_analyzer.py (EmotionAnalyzer) and the      *)
(* same methods of emotion_analyzer_ai.py (AIEmotionAnalyzer).             *)
(***************************************************************************)
positive_keywords ==
  [ru |-> << "spasibo", "horosho", "otlichno", "ponyatno", "pomogli",
             "resheno", "blagodaryu", "dovolen" >>,
   kk |-> << "rahmet", "zhaqsy", "keremet", "tusindim", "komektesti",
             "sheshildi", "rizamyn", "quanyshty" >>]

negative_keywords ==
  [ru |-> << "ploho", "uzhasno", "ne rabotaet", "problema", "zloy",
             "nedovolen", "razocharovan", "bespolezno" >>,
   kk |-> << "zhaman", "qorqynyshty", "zhumys istemeidi", "masele", "ashuly",
             "rizasyz", "konili tolmagan", "paidasyz" >>]

\* The confidence of a winning count: min(0.9, 0.5 + count * 0.1).
KeywordConfidence(count) == Min(900, 500 + count * 100)

\* Variant of KeywordVerdict in which a tie goes to positive (>= for >).
KeywordVerdictTiePositive(positive_count, negative_count) ==
  IF positive_count >= negative_count
    THEN [sentiment |-> "positive",
          confidence |-> KeywordConfidence(positive_count)]
    ELSE [sentiment |-> "negative",
          confidence |-> KeywordConfidence(negative_count)]

\* _analyze_sentiment_keywords, given the two counts.
KeywordVerdict(positive_count, negative_count) ==
  IF positive_count > negative_count
    THEN [sentiment |-> "positive",
          confidence |-> KeywordConfidence(positive_count)]
  ELSE IF negative_count > positive_count
    THEN [sentiment |-> "negative",
          confidence |-> KeywordConfidence(negative_count)]
  ELSE [sentiment |-> "neutral", confidence |-> 500]

positive_count(text, language) ==
  CountHits(GetLang(positive_keywords, language), Lower(text))

negative_count(text, language) ==
  CountHits(GetLang(negative_keywords, language), Lower(text))

_analyze_sentiment_keywords(text, language) ==
  KeywordVerdict(positive_count(text, language), negative_count(text, language))

\* `word in emotion_label` for the label fragments of
\* _extract_sentiment_from_emotions, on the lower-cased label.
LabelHolds(emotion_label, words) ==
  CASE emotion_label = "joy"      -> "joy" \in words
    [] emotion_label = "sadness"  -> "sad" \in words
    [] emotion_label = "anger"    -> "anger" \in words
    [] emotion_label = "positive" -> "positive" \in words
    [] emotion_label = "negative" -> "negative" \in words
    [] OTHER                      -> FALSE   \* "optimism", "neutral", ""

LowerLabel(label) ==
  CASE label = "POSITIVE" -> "positive"
    [] label = "NEGATIVE" -> "negative"
    [] OTHER -> label

\* max(emotions, key=score): the first entry that has the largest score.
TopEmotion(emotions) ==
  LET best == CHOOSE i \in DOMAIN emotions :
                /\ \A j \in DOMAIN emotions : emotions[j].score <= emotions[i].score
                /\ \A j \in 1..(i-1) : emotions[j].score < emotions[i].score
  IN emotions[best]

_extract_sentiment_from_emotions(emotions) ==
  IF emotions = << >>
    THEN [sentiment |-> "neutral", confidence |-> 500]
    ELSE LET top_emotion == TopEmotion(emotions)
             emotion_label == LowerLabel(top_emotion.label)
         IN [sentiment |->
               IF LabelHolds(emotion_label, {"positive", "joy", "happy", "satisfied"})
                 THEN "positive"
               ELSE IF LabelHolds(emotion_label,
                         {"negative", "anger", "sad", "frustrated", "disappointed"})
                 THEN "negative"
               ELSE "neutral",
             confidence |-> top_emotion.score]

\* Variant of _combine_sentiment_analysis that averages on disagreement too.
CombineAlwaysAveraged(keyword_result, ml_result) ==
  [sentiment |-> keyword_result.sentiment,
   confidence |-> (keyword_result.confidence * 7 + ml_result.confidence * 3) \div 10]

\* _combine_sentiment_analysis: 0.7 * keyword + 0.3 * model when they agree,
\* the keyword result when they disagree.
_combine_sentiment_analysis(keyword_result, ml_result) ==
  IF keyword_result.sentiment = ml_result.sentiment
    THEN [sentiment |-> keyword_result.sentiment,
          confidence |-> (keyword_result.confidence * 7
                          + ml_result.confidence * 3) \div 10]
    ELSE keyword_result

\* The dict analyze_emotions returns for an empty text (lines 46-51).
EmptyTextResult(language) ==
  [emotions |-> << [label |-> "neutral", score |-> 500] >>,
   sentiment |-> "neutral",
   sentiment_confidence |-> 500,
   language |-> language]

\* The dict analyze_emotions returns after the model pass (lines 69-75).
CombinedResult(emotions, final_sentiment, language) ==
  [emotions |-> emotions,
   sentiment |-> final_sentiment.sentiment,
   sentiment_confidence |-> final_sentiment.confidence,
   language |-> language,
   analysis_method |-> "ml_keyword_combined"]

\* Variant of KeywordResult that falls back to the empty-text answer.
KeywordResultNeutral(keyword_sentiment, language) ==
  [emotions |-> << [label |-> "neutral", score |-> 500] >>,
   sentiment |-> "neutral",
   sentiment_confidence |-> 500,
   language |-> language,
   analysis_method |-> "keyword_based"]

\* The dict analyze_emotions returns on the keyword fallback (lines 80-86).
KeywordResult(keyword_sentiment, language) ==
  [emotions |-> << [label |-> keyword_sentiment.sentiment,
                    score |-> keyword_sentiment.confidence] >>,
   sentiment |-> keyword_sentiment.sentiment,
   sentiment_confidence |-> keyword_sentiment.confidence,
   language |-> language,
   analysis_method |-> "keyword_based"]

(***************************************************************************)
(* AIEmotionAnalyzer._parse_ai_emotion_result.  An AI reply is a sequence  *)
(* of lines; a line is [tag, value] for the prefix it starts with and the  *)
(* rest of the line, a CONFIDENCE line also telling whether float() parses *)
(* the rest ("parses") and to what number.                                 *)
(***************************************************************************)
LowerWord(w) ==
  CASE w = "Negative" -> "negative"
    [] w = "POSITIVE" -> "positive"
    [] OTHER -> w

RECURSIVE ParseLines(_, _)
ParseLines(lines, acc) ==
  IF lines = << >> THEN acc
  ELSE LET line == Head(lines)
           next == CASE line.tag = "SENTIMENT:"
                          -> [acc EXCEPT !.sentiment = LowerWord(line.value)]
                     [] line.tag = "CONFIDENCE:"
                          -> [acc EXCEPT !.confidence =
                                IF line.parses THEN line.value ELSE 500]
                     [] OTHER -> acc
       IN ParseLines(Tail(lines), next)

_parse_ai_emotion_result(ai_result) ==
  LET parsed == ParseLines(ai_result, [sentiment |-> "neutral", confidence |-> 500])
  IN [emotions |-> << [label |-> parsed.sentiment, score |-> parsed.confidence] >>,
      sentiment |-> parsed.sentiment,
      sentiment_confidence |-> parsed.confidence,
      ai_enhanced |-> TRUE]

(***************************************************************************)
(* The analyzer object.  self is [emotion_classifier, sentiment_model,     *)
(* sentiment_tokenizer]; env holds what the outside world does during one  *)
(* call: whether each from-the-hub load succeeds, whether invoking the     *)
(* classifier throws, and the list of emotions it returns otherwise.       *)
(***************************************************************************)
\* _load_models: each model is loaded only while its field is None; a failed
\* load leaves the field None.
LoadClassifier(self, env) ==
  IF self.emotion_classifier = "None"
    THEN [attempted |-> TRUE, failed |-> ~env.classifier_loads,
          value |-> IF env.classifier_loads THEN "pipeline" ELSE "None"]
    ELSE [attempted |-> FALSE, failed |-> FALSE, value |-> self.emotion_classifier]

LoadSentimentModel(self, env) ==
  IF self.sentiment_model = "None"
    THEN [attempted |-> TRUE,
          failed |-> ~(env.model_loads /\ env.tokenizer_loads),
          value |-> IF env.model_loads /\ env.tokenizer_loads
                      THEN "loaded" ELSE "None"]
    ELSE [attempted |-> FALSE, failed |-> FALSE, value |-> self.sentiment_model]

_load_models(self, env) ==
  LET c == LoadClassifier(self, env)
      m == LoadSentimentModel(self, env)
  IN [self |-> [emotion_classifier |-> c.value,
                sentiment_model |-> m.value,
                sentiment_tokenizer |->
                  IF m.attempted THEN m.value ELSE self.sentiment_tokenizer],
      classifier |-> [attempted |-> c.attempted, failed |-> c.failed],
      sentiment_model |-> [attempted |-> m.attempted, failed |-> m.failed]]

NoLoad(self) ==
  [self |-> self,
   classifier |-> [attempted |-> FALSE, failed |-> FALSE],
   sentiment_model |-> [attempted |-> FALSE, failed |-> FALSE]]

\* The part of analyze_emotions after the empty-text check (lines 53-86), which
\* is also AIEmotionAnalyzer._analyze_emotions_traditional (lines 204-241).
\* Gives the object after the call, the dict returned and what happened.
KeywordThenModel(self, text, language, env) ==
  LET keyword_sentiment == _analyze_sentiment_keywords(text, language)
      loaded == _load_models(self, env)
      invoked == loaded.self.emotion_classifier # "None"
      threw == invoked /\ env.classifier_throws
  IN [self |-> loaded.self,
      loaded |-> loaded,
      keyword_sentiment |-> keyword_sentiment,
      invoked |-> invoked,
      threw |-> threw,
      path |-> IF invoked /\ ~threw THEN "combined" ELSE "keyword",
      ret |-> IF invoked /\ ~threw
                THEN CombinedResult(
                       env.emotions,
                       _combine_sentiment_analysis(
                         keyword_sentiment,
                         _extract_sentiment_from_emotions(env.emotions)),
                       language)
                ELSE KeywordResult(keyword_sentiment, language)]

\* The keyword pass did not run in this call.
NotComputed == [sentiment |-> "None", confidence |-> 0]

\* What a call that returns at the empty-text check did.
EmptyTextCall(self, language, returned) ==
  [self |-> self,
   loaded |-> NoLoad(self),
   keyword_sentiment |-> NotComputed,
   invoked |-> FALSE,
   threw |-> FALSE,
   path |-> "empty",
   ret |-> returned]

\* EmotionAnalyzer.analyze_emotions.
analyze_emotions(self, text, language, env) ==
  IF IsBlank(text)
    THEN EmptyTextCall(self, language, EmptyTextResult(language))
    ELSE KeywordThenModel(self, text, language, env)

NoReply == [answered |-> FALSE, lines |-> << >>]

\* `if ai_result:` - a reply arrived and is not the empty string.
Parsed(ai_result) == ai_result.answered /\ ai_result.lines # << >>

\* AIEmotionAnalyzer.analyze_emotions_ai; ai_result is the reply of the AI
\* client that answered (answered is FALSE when no client is configured or
\* both fail, leaving ai_result None).
analyze_emotions_ai(self, text, language, ai_result, env) ==
  IF IsBlank(text)
    THEN EmptyTextCall(self, language,
           [emotions |-> << [label |-> "neutral", score |-> 500] >>,
            sentiment |-> "neutral",
            sentiment_confidence |-> 500,
            language |-> language,
            ai_enhanced |-> FALSE])
  ELSE IF Parsed(ai_result)
    THEN [self |-> self,
          loaded |-> NoLoad(self),
          keyword_sentiment |-> NotComputed,
          invoked |-> FALSE,
          threw |-> FALSE,
          path |-> "ai",
          ret |-> _parse_ai_emotion_result(ai_result.lines)]
  ELSE LET t == KeywordThenModel(self, text, language, env)
       IN [t EXCEPT !.ret = [k \in DOMAIN t.ret \cup {"ai_enhanced"} |->
                               IF k = "ai_enhanced" THEN FALSE ELSE t.ret[k]]]

(***************************************************************************)
(* Resolution detector: resolution_detector.py.                            *)
(***************************************************************************)
\* self.resolution_keywords; a dict iterates in insertion order, so each
\* language is the sequence of its (status, keywords) items.
resolution_keywords ==
  [ru |-> << [status |-> "resolved",
              keywords |-> << "resheno", "reshil", "pomog", "ispravleno",
                              "gotovo", "vse v poryadke", "problema reshena" >>],
             [status |-> "unresolved",
              keywords |-> << "ne resheno", "ne pomoglo", "problema ostalas",
                              "ne rabotaet", "ne poluchilos" >>],
             [status |-> "partial",
              keywords |-> << "chastichno", "poprobuyu", "posmotrim",
                              "vozmozhno", "poprobuem" >>] >>,
   kk |-> << [status |-> "resolved",
              keywords |-> << "sheshildi", "sheshtim", "komektestim",
                              "tuzetildi", "daiyn", "barlygy durys",
                              "masele sheshildi" >>],
             [status |-> "unresolved",
              keywords |-> << "sheshilmedi", "komektespedi", "masele qaldy",
                              "zhumys istemeidi", "bolmady" >>],
             [status |-> "partial",
              keywords |-> << "zhartylai", "koreiin", "qaraimyz", "mumkin",
                              "koreiik" >>] >>]

\* Variant of FirstStatus in which a later category overrides an earlier one.
RECURSIVE FirstStatusLastMatch(_, _)
FirstStatusLastMatch(items, text_lower) ==
  IF items = << >> THEN "unclear"
  ELSE LET later == FirstStatusLastMatch(Tail(items), text_lower)
       IN IF later # "unclear" THEN later
          ELSE IF CountHits(Head(items).keywords, text_lower) > 0
            THEN Head(items).status
            ELSE "unclear"

\* _check_keywords: the first status, in iteration order, one of whose
\* keywords occurs in the text.
RECURSIVE FirstStatus(_, _)
FirstStatus(items, text_lower) ==
  IF items = << >> THEN "unclear"
  ELSE IF CountHits(Head(items).keywords, text_lower) > 0
    THEN Head(items).status
    ELSE FirstStatus(Tail(items), text_lower)

_check_keywords(text, language) ==
  FirstStatus(GetLang(resolution_keywords, language), Lower(text))

\* customer_text.split('.'): a full stop is the fragment ".".
RECURSIVE SplitFrom(_, _, _)
SplitFrom(text, sentence, sentences) ==
  IF text = << >> THEN Append(sentences, sentence)
  ELSE IF Head(text) = "."
    THEN SplitFrom(Tail(text), << >>, Append(sentences, sentence))
  ELSE SplitFrom(Tail(text), Append(sentence, Head(text)), sentences)

SplitSentences(text) == SplitFrom(text, << >>, << >>)

\* sentences[-3:]
LastThree(sentences) ==
  SubSeq(sentences, Max(1, Len(sentences) - 2), Len(sentences))

_analyze_final_sentiment(sentences) == "neutral"

\* dict.get(key, default)
Get(dict, key, default) == IF key \in DOMAIN dict THEN dict[key] ELSE default

base_scores ==
  [resolved |-> 90, partial |-> 60, unresolved |-> 20, unclear |-> 50]

sentiment_modifiers == [positive |-> 10, neutral |-> 0, negative |-> -10]

_calculate_resolution_score(status, sentiment) ==
  Max(0, Min(100, Get(base_scores, status, 50)
                    + Get(sentiment_modifiers, sentiment, 0)))

\* Variant of Resolution whose threshold is inclusive (>= 70 for > 70).
ResolutionAtLeast70(resolution_status, final_sentiment, language) ==
  LET resolution_score ==
        _calculate_resolution_score(resolution_status, final_sentiment)
  IN [resolved |-> resolution_score >= 70,
      resolution_score |-> resolution_score,
      status |-> resolution_status,
      final_sentiment |-> final_sentiment,
      language |-> language]

\* The dict detect_issue_resolution builds from the status and the final
\* sentiment (lines 44-55).
Resolution(resolution_status, final_sentiment, language) ==
  LET resolution_score ==
        _calculate_resolution_score(resolution_status, final_sentiment)
  IN [resolved |-> resolution_score > 70,
      resolution_score |-> resolution_score,
      status |-> resolution_status,
      final_sentiment |-> final_sentiment,
      language |-> language]

detect_issue_resolution(conversation, customer_text, language) ==
  Resolution(_check_keywords(customer_text, language),
             _analyze_final_sentiment(LastThree(SplitSentences(customer_text))),
             language)

(***************************************************************************)
(* Scoring engine: scoring_engine.py.  Scores are in thousandths of a      *)
(* point, response times in seconds, the call duration in milliseconds.    *)
(***************************************************************************)
\* Variant of weights that gives the emotion score 0.30.
WeightsHeavyEmotion ==
  [emotion |-> 30, resolution |-> 25, communication |-> 20,
   professionalism |-> 15, empathy |-> 10, efficiency |-> 5]

\* self.weights, in hundredths.
weights ==
  [emotion |-> 25, resolution |-> 25, communication |-> 20,
   professionalism |-> 15, empathy |-> 10, efficiency |-> 5]

\* Variant of Clamp that leaves the score as it is.
ClampOff(score) == score

\* max(0, min(100, score))
Clamp(score) == Max(0, Min(100000, score))

RECURSIVE Sum(_)
Sum(seq) == IF seq = << >> THEN 0 ELSE Head(seq) + Sum(Tail(seq))

\* The hits of a phrase table in a text, over every language of the table:
\* `for lang, phrases in table.items(): for phrase in phrases: ...`.
HitsAllLanguages(table, text_lower) ==
  CountHits(table.ru, text_lower) + CountHits(table.kk, text_lower)

_calculate_emotion_score(emotions, progression) ==
  LET current_sentiment == Get(emotions, "sentiment", "neutral")
      sentiment_confidence == Get(emotions, "sentiment_confidence", 500)
      current == CASE current_sentiment = "positive" -> 30 * sentiment_confidence
                   [] current_sentiment = "negative" -> -25 * sentiment_confidence
                   [] OTHER -> 5 * sentiment_confidence
      start_emotion == progression[1].emotions.sentiment
      end_emotion == progression[Len(progression)].emotions.sentiment
      trajectory ==
        IF Len(progression) > 1
          THEN CASE start_emotion = "negative" /\ end_emotion = "positive" -> 25000
                 [] start_emotion = "negative" /\ end_emotion = "neutral" -> 15000
                 [] start_emotion = "neutral" /\ end_emotion = "positive" -> 10000
                 [] start_emotion = "positive" /\ end_emotion = "negative" -> -20000
                 [] start_emotion = "neutral" /\ end_emotion = "negative" -> -15000
                 [] OTHER -> 0
          ELSE 0
  IN Clamp(50000 + current + trajectory)

clarity_phrases ==
  [ru |-> << "ponimayu", "yasno", "konechno", "pomogu", "razberemsya",
             "obyasnyu", "pokazhu" >>,
   kk |-> << "tusindim", "anyq", "arine", "komektesemin", "sheshemiz",
             "tusindiremin", "korsetemin" >>]

unclear_phrases ==
  [ru |-> << "ne znayu", "ne ponimayu", "ne mogu", "ne poluchaetsya", "slozhno" >>,
   kk |-> << "bilmeimin", "tusinbeimin", "alamyn", "bolmady", "qiyn" >>]

_calculate_communication_score(text, response_times, interruptions) ==
  LET n == Len(response_times)
      total == Sum(response_times)
      band == IF n > 0
                THEN (IF total > 10 * n THEN -20000
                      ELSE IF total > 5 * n THEN -10000
                      ELSE IF total < 2 * n THEN 10000
                      ELSE 0)
                ELSE -5000
      clarity_bonus == 3000 * HitsAllLanguages(clarity_phrases, Lower(text))
      unclear_penalty == 5000 * HitsAllLanguages(unclear_phrases, Lower(text))
  IN Clamp(70000 - interruptions * 8000 + band
           + Min(15000, clarity_bonus) - Min(20000, unclear_penalty))

professional_indicators ==
  [ru |-> << "zdravstvuyte", "spasibo", "pozhaluysta", "izvinite", "blagodaryu",
             "razreshite", "pozvolte" >>,
   kk |-> << "salemetsiz be", "rahmet", "otinemin", "keshiriniz", "rizamyn",
             "ruqsat etiniz", "zhaldanyz" >>]

unprofessional_indicators ==
  [ru |-> << "blin", "chert", "durak", "idiot", "tupoy", "glupyy", "bred" >>,
   kk |-> << "quday", "shaitan", "aqymaq", "idiot", "aqymaq", "aqylsyz",
             "magynasyz" >>]

polite_phrases ==
  [ru |-> << "budte dobry", "ne mogli by", "esli mozhno", "proshu vas" >>,
   kk |-> << "zhaqsy bolynyz", "ala almaisyz ba", "mumkin bolsa", "otinemin" >>]

_calculate_professionalism_score(text, greeting, closing) ==
  LET professional_bonus ==
        3000 * HitsAllLanguages(professional_indicators, Lower(text))
      unprofessional_penalty ==
        15000 * HitsAllLanguages(unprofessional_indicators, Lower(text))
  IN Clamp(50000
           + (IF greeting THEN 20000 ELSE 0)
           + (IF closing THEN 20000 ELSE 0)
           + Min(20000, professional_bonus)
           - Min(40000, unprofessional_penalty)
           + 5000 * HitsAllLanguages(polite_phrases, Lower(text)))

empathy_phrases ==
  [ru |-> << "ponimayu vashi chuvstva", "sochuvstvuyu",
             "ponimayu vashu situatsiyu", "predstavlyayu kak eto slozhno",
             "ponimayu vashe bespokoystvo", "izvinite za neudobstva",
             "ponimayu vashu problemu" >>,
   kk |-> << "sezimderinizdi tusinemin", "yntalaimyn",
             "zhagdaiynyzdy tusinemin", "qanshalyqty qiyn ekenin elestetemin",
             "mazasyzdygynyzdy tusinemin", "yngaisyzdyq ushin keshiriniz",
             "maselenizdi tusinemin" >>]

_calculate_empathy_score(worker_text, emotions, language) ==
  LET empathy_bonus ==
        8000 * CountHits(GetLang(empathy_phrases, language), Lower(worker_text))
      customer_sentiment == Get(emotions, "sentiment", "neutral")
  IN Clamp(60000 + Min(25000, empathy_bonus)
           + (IF customer_sentiment = "negative" THEN 10000 ELSE 0))

\* Variant of _calculate_efficiency_score whose 3-8 minute band excludes its
\* two ends.
EfficiencyScoreOpenBand(response_times, interruptions, transcription) ==
  LET n == Len(response_times)
      total == Sum(response_times)
      band == IF n > 0
                THEN (IF total < 2 * n THEN 15000
                      ELSE IF total < 4 * n THEN 10000
                      ELSE IF total > 8 * n THEN -15000
                      ELSE IF total > 5 * n THEN -10000
                      ELSE 0)
                ELSE 0
      call_duration == Get(transcription, "duration", 0)
      length == IF 180000 < call_duration /\ call_duration < 480000 THEN 10000
                ELSE IF call_duration > 600000 THEN -10000
                ELSE IF call_duration < 60000 THEN -5000
                ELSE 0
  IN Clamp(70000 + band - interruptions * 5000 + length)

_calculate_efficiency_score(response_times, interruptions, transcription) ==
  LET n == Len(response_times)
      total == Sum(response_times)
      band == IF n > 0
                THEN (IF total < 2 * n THEN 15000
                      ELSE IF total < 4 * n THEN 10000
                      ELSE IF total > 8 * n THEN -15000
                      ELSE IF total > 5 * n THEN -10000
                      ELSE 0)
                ELSE 0
      call_duration == Get(transcription, "duration", 0)
      length == IF 180000 <= call_duration /\ call_duration <= 480000 THEN 10000
                ELSE IF call_duration > 600000 THEN -10000
                ELSE IF call_duration < 60000 THEN -5000
                ELSE 0
  IN Clamp(70000 + band - interruptions * 5000 + length)

\* _get_performance_grade, on a total in units of 1/100000 of a point.
_get_performance_grade(total_score) ==
  IF total_score >= 9000000 THEN "Excellent"
  ELSE IF total_score >= 8000000 THEN "Good"
  ELSE IF total_score >= 7000000 THEN "Satisfactory"
  ELSE IF total_score >= 6000000 THEN "Needs Improvement"
  ELSE "Poor"

\* round(x, 1) of x = n / (10 * d), as a number of tenths (ties to even).
RoundToTenths(n, d) ==
  LET q == n \div d
      r == n % d
  IN IF 2 * r < d THEN q
     ELSE IF 2 * r > d THEN q + 1
     ELSE IF q % 2 = 0 THEN q ELSE q + 1

Categories ==
  << "emotion", "resolution", "communication", "professionalism", "empathy",
     "efficiency" >>

strength_texts ==
  [emotion |-> << "Excellent customer emotional management",
                  "Good emotional awareness" >>,
   resolution |-> << "Outstanding problem-solving skills",
                     "Effective issue resolution" >>,
   communication |-> << "Exceptional communication clarity",
                        "Clear and helpful communication" >>,
   professionalism |-> << "Exemplary professional conduct",
                          "Professional and courteous service" >>,
   empathy |-> << "High level of empathy and understanding",
                  "Good customer empathy" >>,
   efficiency |-> << "Excellent call efficiency", "Good time management" >>]

improvement_texts ==
  [emotion |-> << "Improve emotional connection with customers",
                  "Enhance customer emotional support" >>,
   resolution |-> << "Strengthen problem resolution techniques",
                     "Improve issue resolution effectiveness" >>,
   communication |-> << "Enhance communication clarity and helpfulness",
                        "Improve communication effectiveness" >>,
   professionalism |-> << "Maintain higher professional standards",
                          "Enhance professional conduct" >>,
   empathy |-> << "Develop better empathy and understanding",
                  "Show more empathy toward customers" >>,
   efficiency |-> << "Improve call efficiency and time management",
                     "Enhance call handling efficiency" >>]

\* _identify_strengths: per category, in order, at most one text.
RECURSIVE IdentifyStrengthsFrom(_, _)
IdentifyStrengthsFrom(cats, scores) ==
  IF cats = << >> THEN << >>
  ELSE LET c == Head(cats)
           mine == IF scores[c] > 85000 THEN << strength_texts[c][1] >>
                   ELSE IF scores[c] > 75000 THEN << strength_texts[c][2] >>
                   ELSE << >>
       IN mine \o IdentifyStrengthsFrom(Tail(cats), scores)

_identify_strengths(scores) == IdentifyStrengthsFrom(Categories, scores)

\* _identify_improvements: per category, in order, at most one text.
RECURSIVE IdentifyImprovementsFrom(_, _)
IdentifyImprovementsFrom(cats, scores) ==
  IF cats = << >> THEN << >>
  ELSE LET c == Head(cats)
           mine == IF scores[c] < 60000 THEN << improvement_texts[c][1] >>
                   ELSE IF scores[c] < 70000 THEN << improvement_texts[c][2] >>
                   ELSE << >>
       IN mine \o IdentifyImprovementsFrom(Tail(cats), scores)

_identify_improvements(scores) == IdentifyImprovementsFrom(Categories, scores)

\* The keys calculate_total_score subscripts (call_analysis[key]), in the
\* order it evaluates them; "language" and "transcription" are read with get.
RequiredKeys ==
  << "emotions", "emotion_progression", "resolution", "worker_text",
     "response_times", "interruptions", "greeting", "closing" >>

RECURSIVE FirstMissing(_, _)
FirstMissing(keys, dict) ==
  IF keys = << >> THEN "None"
  ELSE IF Head(keys) \notin DOMAIN dict THEN Head(keys)
  ELSE IF Head(keys) = "resolution"
          /\ "resolution_score" \notin DOMAIN dict.resolution
    THEN "resolution_score"
  ELSE FirstMissing(Tail(keys), dict)

\* len() of a fragment.  The two fillers stand for 100 and for 200
\* characters that hold no phrase of any lexicon.
CharLen(f) ==
  CASE f = " " -> 1
    [] f = "." -> 1
    [] f = "karta" -> 5
    [] f = "zdravstvuyte" -> 12
    [] f = "zdravstvuyte, chem mogu pomoch?" -> 30
    [] f = "u menya problema s kartoy" -> 24
    [] f = "ponimayu, reshim" -> 14
    [] f = "ponimayu, pomogu reshit" -> 22
    [] f = "!" -> 1
    [] f = "spasibo za obrashchenie" -> 20
    [] f = "spasibo za zvonok" -> 17
    [] f = "do svidaniya" -> 11
    [] f = "salemetsiz be" -> 13
    [] f = "sau bolynyz" -> 11
    [] f = "(100 characters)" -> 100
    [] f = "(200 characters)" -> 200
    [] OTHER -> 10

\* len(text)
RECURSIVE TextLen(_)
TextLen(text) ==
  IF text = << >> THEN 0 ELSE CharLen(Head(text)) + TextLen(Tail(text))

\* _get_detailed_analysis: the fields of the call analysis copied into the
\* breakdown; the mean response time is in thousandths of a second.
_get_detailed_analysis(call_analysis) ==
  LET response_times == Get(call_analysis, "response_times", << >>)
  IN [call_duration |->
        Get(Get(call_analysis, "transcription", << >>),
            "duration", 0),
      language_detected |-> Get(call_analysis, "language", "unknown"),
      greeting_provided |-> Get(call_analysis, "greeting", FALSE),
      proper_closing |-> Get(call_analysis, "closing", FALSE),
      interruption_count |-> Get(call_analysis, "interruptions", 0),
      average_response_time |->
        IF response_times # << >>
          THEN (1000 * Sum(response_times)) \div Len(response_times)
          ELSE 0,
      customer_sentiment |->
        Get(Get(call_analysis, "emotions", << >>),
            "sentiment", "neutral"),
      issue_resolved |->
        Get(Get(call_analysis, "resolution", << >>),
            "resolved", FALSE),
      worker_text_length |-> TextLen(Get(call_analysis, "worker_text", << >>)),
      customer_text_length |->
        TextLen(Get(call_analysis, "customer_text", << >>))]

Raised(error, key) == [status |-> "raised", error |-> error, key |-> key]

Returned(value) == [status |-> "returned", value |-> value]

\* Variant of WeightedTotal that takes the emotion score as a penalty.
WeightedTotalLessEmotion(scores) ==
  (100000 - scores.emotion) * scoring_engine.weights.emotion
  + scores.resolution * scoring_engine.weights.resolution
  + scores.communication * scoring_engine.weights.communication
  + scores.professionalism * scoring_engine.weights.professionalism
  + scores.empathy * scoring_engine.weights.empathy
  + scores.efficiency * scoring_engine.weights.efficiency

\* sum(scores[category] * self.weights[category] for category in scores):
\* the weighted total, in units of 1/100000 of a point.
WeightedTotal(scores) ==
  scores.emotion * scoring_engine.weights.emotion
  + scores.resolution * scoring_engine.weights.resolution
  + scores.communication * scoring_engine.weights.communication
  + scores.professionalism * scoring_engine.weights.professionalism
  + scores.empathy * scoring_engine.weights.empathy
  + scores.efficiency * scoring_engine.weights.efficiency

\* calculate_total_score: a missing subscripted key raises KeyError;
\* otherwise the dict of scores, each rounded to one decimal (in tenths).
calculate_total_score(call_analysis) ==
  LET missing == FirstMissing(RequiredKeys, call_analysis)
  IN IF missing # "None" THEN Raised("KeyError", missing)
     ELSE
       LET scores ==
             [emotion |-> _calculate_emotion_score(
                            call_analysis.emotions,
                            call_analysis.emotion_progression),
              resolution |-> 1000 * call_analysis.resolution.resolution_score,
              communication |-> _calculate_communication_score(
                                  call_analysis.worker_text,
                                  call_analysis.response_times,
                                  call_analysis.interruptions),
              professionalism |-> _calculate_professionalism_score(
                                    call_analysis.worker_text,
                                    call_analysis.greeting,
                                    call_analysis.closing),
              empathy |-> _calculate_empathy_score(
                            call_analysis.worker_text,
                            call_analysis.emotions,
                            Get(call_analysis, "language", "ru")),
              efficiency |-> _calculate_efficiency_score(
                               call_analysis.response_times,
                               call_analysis.interruptions,
                               Get(call_analysis, "transcription", << >>))]
           total_score == WeightedTotal(scores)
       IN Returned(
            [total_score |-> RoundToTenths(total_score, 10000),
             performance_grade |-> _get_performance_grade(total_score),
             emotion_score |-> RoundToTenths(scores.emotion, 100),
             resolution_score |-> RoundToTenths(scores.resolution, 100),
             communication_score |-> RoundToTenths(scores.communication, 100),
             professionalism_score |-> RoundToTenths(scores.professionalism, 100),
             empathy_score |-> RoundToTenths(scores.empathy, 100),
             efficiency_score |-> RoundToTenths(scores.efficiency, 100),
             breakdown |-> [strengths |-> _identify_strengths(scores),
                            improvements |-> _identify_improvements(scores),
                            detailed_analysis |->
                              _get_detailed_analysis(call_analysis)]])

\* Variant of EngineAfterScore in which a call rebalances the weights towards
\* the resolution score.
EngineRetunedAfterScore(self, call_analysis) ==
  [self EXCEPT !.weights.emotion = Max(0, @ - 5),
               !.weights.resolution = @ + Min(5, self.weights.emotion)]

\* The engine object after calculate_total_score: the method and its helpers
\* read self.weights and assign no attribute of self.
EngineAfterScore(self, call_analysis) == self

\* The effect of one call of calculate_total_score on the engine, and the
\* call's entry in the history.
Served(call_analysis, result) ==
  /\ scoring_engine' = EngineAfterScore(scoring_engine, call_analysis)
  /\ scored' = Append(scored, [call_analysis |-> call_analysis,
                               result |-> result])

(***************************************************************************)
(* Inputs of the analyzer calls.                                           *)
(***************************************************************************)
CustomerTexts ==
  { << >>, << " " >>,
    << "karta" >>,
    << "Spasibo" >>,
    << "rahmet" >>,
    << "Spasibo", "problema" >>,
    << "ploho, uzhasno, zloy, razocharovan, bespolezno" >> }

\* What the text-classification pipeline returns for a text.
ClassifierEmotions ==
  { << >>,
    << [label |-> "sadness", score |-> 600] >>,
    << [label |-> "optimism", score |-> 700] >>,
    << [label |-> "anger", score |-> 300], [label |-> "POSITIVE", score |-> 1000] >> }

Envs ==
  [classifier_loads : BOOLEAN, model_loads : BOOLEAN, tokenizer_loads : BOOLEAN,
   classifier_throws : BOOLEAN, emotions : ClassifierEmotions]

\* The environments that differ in what a call on `self` can observe: a load
\* that is not attempted and an invocation that is not made have no outcome.
ObservableEnvs(self) ==
  { env \in Envs :
      /\ self.emotion_classifier # "None" => env.classifier_loads
      /\ self.sentiment_model # "None" => env.model_loads
      /\ ~env.model_loads => env.tokenizer_loads
      /\ ~env.classifier_loads => ~env.classifier_throws
      /\ (env.classifier_throws \/ ~env.classifier_loads) => env.emotions = << >> }

\* The environment of a call that touches no model.
NoEnv ==
  [classifier_loads |-> TRUE, model_loads |-> TRUE, tokenizer_loads |-> TRUE,
   classifier_throws |-> FALSE, emotions |-> << >>]

\* Replies of the AI client, after the prompt that asks for
\* "SENTIMENT: [positive/negative/neutral]" and "CONFIDENCE: [0.0-1.0]".
AIReplies ==
  { [answered |-> FALSE, lines |-> << >>],
    [answered |-> TRUE, lines |-> << >>],
    [answered |-> TRUE,
     lines |-> << [tag |-> "SENTIMENT:", value |-> "positive"],
                  [tag |-> "CONFIDENCE:", parses |-> TRUE, value |-> 850] >>],
    [answered |-> TRUE,
     lines |-> << [tag |-> "SENTIMENT:", value |-> "Negative"],
                  [tag |-> "CONFIDENCE:", parses |-> FALSE, value |-> 0],
                  [tag |-> "INTENSITY:", value |-> "high"] >>],
    [answered |-> TRUE,
     lines |-> << [tag |-> "other", value |-> "The customer sounds calm."] >>],
    [answered |-> TRUE,
     lines |-> << [tag |-> "SENTIMENT:", value |-> "mixed"],
                  [tag |-> "CONFIDENCE:", parses |-> TRUE, value |-> 700] >>],
    [answered |-> TRUE,
     lines |-> << [tag |-> "SENTIMENT:", value |-> "neutral"],
                  [tag |-> "CONFIDENCE:", parses |-> TRUE, value |-> 85000] >>] }

(***************************************************************************)
(* The analyzer process: one module-level analyzer object, called once per *)
(* customer text and once per segment (track_emotion_progression), any     *)
(* number of times.                                                        *)
(***************************************************************************)
Self == [emotion_classifier |-> emotion_classifier,
         sentiment_model |-> sentiment_model,
         sentiment_tokenizer |-> sentiment_tokenizer]

NoLoads == [attempts |-> 0, failures |-> 0, successes |-> 0]

Tally(tally, load) ==
  [attempts |-> tally.attempts + (IF load.attempted THEN 1 ELSE 0),
   failures |-> tally.failures + (IF load.attempted /\ load.failed THEN 1 ELSE 0),
   successes |-> tally.successes + (IF load.attempted /\ ~load.failed THEN 1 ELSE 0)]

NoCall ==
  [method |-> "None", text |-> << >>, language |-> "ru",
   keyword_sentiment |-> NotComputed, path |-> "None",
   classifier_load |-> [attempted |-> FALSE, failed |-> FALSE],
   invoked |-> FALSE, threw |-> FALSE, ret |-> [sentiment |-> "None"]]

\* The state after a call `done` of `method` on `text`.
Returns(method, text, language, done) ==
  /\ emotion_classifier' = done.self.emotion_classifier
  /\ sentiment_model' = done.self.sentiment_model
  /\ sentiment_tokenizer' = done.self.sentiment_tokenizer
  /\ calls' = calls + 1
  /\ loads' = [classifier |-> Tally(loads.classifier, done.loaded.classifier),
               sentiment_model |->
                 Tally(loads.sentiment_model, done.loaded.sentiment_model)]
  /\ last' = [method |-> method, text |-> text, language |-> language,
              keyword_sentiment |-> done.keyword_sentiment,
              path |-> done.path,
              classifier_load |-> done.loaded.classifier,
              invoked |-> done.invoked, threw |-> done.threw,
              ret |-> done.ret]
  /\ UNCHANGED << analyzer_class, harness_vars, engine_vars, pipeline_vars >>

AnalyzeEmotions ==
  /\ analyzer_class = "EmotionAnalyzer"
  /\ calls < MaxCalls
  /\ \E text \in CustomerTexts, language \in Languages :
       \E env \in (IF IsBlank(text) THEN {NoEnv} ELSE ObservableEnvs(Self)) :
         Returns("analyze_emotions", text, language,
                 analyze_emotions(Self, text, language, env))

AnalyzeEmotionsAI ==
  /\ analyzer_class = "AIEmotionAnalyzer"
  /\ calls < MaxCalls
  /\ \E text \in CustomerTexts, language \in Languages :
       \E ai_result \in (IF IsBlank(text) THEN {NoReply} ELSE AIReplies) :
         \E env \in (IF IsBlank(text) \/ Parsed(ai_result)
                        THEN {NoEnv} ELSE ObservableEnvs(Self)) :
           Returns("analyze_emotions_ai", text, language,
                   analyze_emotions_ai(Self, text, language, ai_result, env))

HarnessIdle == fn = "None" /\ args = << >> /\ ret = [status |-> "None"]

\* No call is being assessed and the data directory holds no record.
PipelineIdle == pipeline = [pc |-> "idle", records |-> << >>]

\* scoring_engine = ScoringEngine(): __init__ sets the weights.
EngineBuilt == scoring_engine = [weights |-> weights] /\ scored = << >>

\* main.py builds an EmotionAnalyzer, main_ai_enhanced.py an AIEmotionAnalyzer;
\* __init__ leaves the three model fields None.
Init ==
  /\ analyzer_class \in {"EmotionAnalyzer", "AIEmotionAnalyzer"}
  /\ emotion_classifier = "None"
  /\ sentiment_model = "None"
  /\ sentiment_tokenizer = "None"
  /\ calls = 0
  /\ loads = [classifier |-> NoLoads, sentiment_model |-> NoLoads]
  /\ last = NoCall
  /\ HarnessIdle
  /\ EngineBuilt
  /\ PipelineIdle

Next == AnalyzeEmotions \/ AnalyzeEmotionsAI

Spec == Init /\ [][Next]_vars

(***************************************************************************)
(* The pure functions of the sentiment estimator and of the resolution     *)
(* detector, each applied once to arguments drawn from bounded sets.       *)
(***************************************************************************)
Fragments ==
  { " ", "karta", "Spasibo", "problema", "nedovolen", "rahmet", "zhaman",
    "ne resheno", "ne pomoglo", "ne rabotaet", "chastichno", "sheshildi",
    "spasibo, horosho, otlichno, ponyatno, pomogli",
    "ploho, uzhasno, zloy, razocharovan, bespolezno" }

Texts == UNION { [1..n -> Fragments] : n \in 0..MaxTextLen }

\* The results the keyword pass can return.
KeywordResults ==
  { [sentiment |-> "neutral", confidence |-> 500] } \cup
  [sentiment : {"positive", "negative"}, confidence : {600, 700, 800, 900}]

ModelEmotions ==
  ClassifierEmotions \cup
  { << [label |-> "joy", score |-> 950] >>,
    << [label |-> "NEGATIVE", score |-> 10] >>,
    << [label |-> "anger", score |-> 400], [label |-> "joy", score |-> 400] >>,
    << [label |-> "neutral", score |-> 500], [label |-> "joy", score |-> 200] >> }

Statuses == {"resolved", "partial", "unclear", "unresolved"}

\* Response times and interruption counts given to the scoring functions.
ScoredResponseTimes == { << >>, << 1 >>, << 3, 10 >>, << 11 >> }

ScoredInterruptions == {0, 1, MaxInterruptions}

\* Call durations in milliseconds, around the ends of each band.
Durations ==
  { 0, 59999, 60000, 179999, 180000, 180001, 300000, 479999, 480000, 480001,
    600000, 600001, 700000 }

\* Transcriptions with a duration, and one without.
TimedTranscriptions ==
  { [text |-> "None"] } \cup { [text |-> "None", duration |-> d] : d \in Durations }

Pending == [status |-> "pending"]

AnalyzerIdle ==
  /\ analyzer_class = "EmotionAnalyzer"
  /\ emotion_classifier = "None"
  /\ sentiment_model = "None"
  /\ sentiment_tokenizer = "None"
  /\ calls = 0
  /\ loads = [classifier |-> NoLoads, sentiment_model |-> NoLoads]
  /\ last = NoCall
  /\ EngineBuilt
  /\ PipelineIdle

InitFunctions ==
  /\ AnalyzerIdle
  /\ ret = Pending
  /\ \/ /\ fn = "_analyze_sentiment_keywords"
        /\ args \in [text : Texts, language : Languages]
     \/ /\ fn = "_combine_sentiment_analysis"
        /\ args \in [keyword_result : KeywordResults, emotions : ModelEmotions]
     \/ /\ fn = "detect_issue_resolution"
        /\ args \in [customer_text : Texts, language : Languages]
     \/ /\ fn = "_calculate_resolution_score"
        /\ args \in [status : Statuses, sentiment : Sentiments]
     \/ /\ fn = "_calculate_efficiency_score"
        /\ args \in [response_times : ScoredResponseTimes,
                     interruptions : ScoredInterruptions,
                     transcription : TimedTranscriptions]

CallAnalyzeSentimentKeywords ==
  /\ fn = "_analyze_sentiment_keywords" /\ ret = Pending
  /\ ret' = Returned(_analyze_sentiment_keywords(args.text, args.language))
  /\ UNCHANGED << analyzer_vars, engine_vars, pipeline_vars, fn, args >>

CallCombineSentimentAnalysis ==
  /\ fn = "_combine_sentiment_analysis" /\ ret = Pending
  /\ ret' = Returned(_combine_sentiment_analysis(
                       args.keyword_result,
                       _extract_sentiment_from_emotions(args.emotions)))
  /\ UNCHANGED << analyzer_vars, engine_vars, pipeline_vars, fn, args >>

CallDetectIssueResolution ==
  /\ fn = "detect_issue_resolution" /\ ret = Pending
  /\ ret' = Returned(detect_issue_resolution(<< >>, args.customer_text,
                                             args.language))
  /\ UNCHANGED << analyzer_vars, engine_vars, pipeline_vars, fn, args >>

CallCalculateResolutionScore ==
  /\ fn = "_calculate_resolution_score" /\ ret = Pending
  /\ ret' = Returned(Resolution(args.status, args.sentiment, "ru"))
  /\ UNCHANGED << analyzer_vars, engine_vars, pipeline_vars, fn, args >>

CallCalculateEfficiencyScore ==
  /\ fn = "_calculate_efficiency_score" /\ ret = Pending
  /\ ret' = Returned(_calculate_efficiency_score(args.response_times,
                                                 args.interruptions,
                                                 args.transcription))
  /\ UNCHANGED << analyzer_vars, engine_vars, pipeline_vars, fn, args >>

NextFunctions ==
  \/ CallCalculateEfficiencyScore
  \/ CallAnalyzeSentimentKeywords
  \/ CallCombineSentimentAnalysis
  \/ CallDetectIssueResolution
  \/ CallCalculateResolutionScore

SpecFunctions == InitFunctions /\ [][NextFunctions]_vars

(***************************************************************************)
(* The scoring engine applied once to a call analysis drawn from bounded   *)
(* sets: complete analyses as process_call_assessment builds them, and     *)
(* partial ones, in which one key is missing.                              *)
(***************************************************************************)
\* Sentiment results as the analyzers return them (keyword, fused and
\* AI-parsed), and one dict without the sentiment keys.
ScoredEmotions ==
  { [sentiment |-> "neutral", sentiment_confidence |-> 500],
    [sentiment |-> "positive", sentiment_confidence |-> 900],
    [sentiment |-> "negative", sentiment_confidence |-> 900],
    [sentiment |-> "neutral", sentiment_confidence |-> 85000] }

Step(sentiment) == [emotions |-> [sentiment |-> sentiment]]

ScoredProgressions ==
  { << >>,
    << Step("negative"), Step("neutral"), Step("positive") >>,
    << Step("positive"), Step("negative") >> }

\* The resolution dicts the Resolution Detector produces.
ScoredResolutions ==
  { detect_issue_resolution(<< >>, text, "ru") :
      text \in { << "karta" >>, << "gotovo" >>, << "chastichno" >>,
                 << "ne rabotaet" >> } }

WorkerTexts ==
  { << >>,
    << "ponimayu" >>,
    << "Zdravstvuyte", "ponimayu vashu problemu" >>,
    << "IDIOT", "blin, chert, durak" >>,
    << "ne znayu, ne ponimayu, ne mogu, ne poluchaetsya, slozhno", "bolmady" >>,
    << "zdravstvuyte, spasibo, pozhaluysta, izvinite, blagodaryu, razreshite, pozvolte",
       "budte dobry, ne mogli by, esli mozhno, proshu vas" >> }

ScoredTranscriptions ==
  { [text |-> "None"] } \cup
  { [text |-> "None", duration |-> d] : d \in {100000, 180000, 700000} }

\* dict without one key.
Without(dict, key) == [k \in DOMAIN dict \ {key} |-> dict[k]]

CompleteAnalyses ==
  [emotions : ScoredEmotions,
   emotion_progression : ScoredProgressions,
   resolution : ScoredResolutions,
   worker_text : WorkerTexts,
   response_times : ScoredResponseTimes,
   interruptions : ScoredInterruptions,
   greeting : BOOLEAN,
   closing : BOOLEAN,
   language : {"ru", "kk"},
   transcription : ScoredTranscriptions]

\* A call analysis with every input at its plainest.
PlainAnalysis ==
  [emotions |-> [sentiment |-> "neutral", sentiment_confidence |-> 500],
   emotion_progression |-> << >>,
   resolution |-> detect_issue_resolution(<< >>, << "karta" >>, "ru"),
   worker_text |-> << >>,
   response_times |-> << >>,
   interruptions |-> 0,
   greeting |-> FALSE,
   closing |-> FALSE,
   language |-> "ru",
   transcription |-> [text |-> "None", duration |-> 100000]]

PartialAnalyses ==
  { Without(PlainAnalysis, key) : key \in DOMAIN PlainAnalysis } \cup
  { [PlainAnalysis EXCEPT !.resolution = Without(@, "resolution_score")],
    [PlainAnalysis EXCEPT !.emotions = Without(@, "sentiment")],
    [PlainAnalysis EXCEPT !.emotions = Without(@, "sentiment_confidence")],
    [PlainAnalysis EXCEPT !.transcription = Without(@, "duration")] }

InitScoring ==
  /\ AnalyzerIdle
  /\ fn = "calculate_total_score"
  /\ args \in CompleteAnalyses \cup PartialAnalyses
  /\ ret = Pending

CallCalculateTotalScore ==
  /\ fn = "calculate_total_score" /\ ret = Pending
  /\ ret' = calculate_total_score(args)
  /\ Served(args, ret')
  /\ UNCHANGED << analyzer_vars, pipeline_vars, fn, args >>

NextScoring == CallCalculateTotalScore

SpecScoring == InitScoring /\ [][NextScoring]_vars

(***************************************************************************)
(* Speaker attributor: speech_recognition.py.  A segment is a dict with    *)
(* the optional keys text, speaker, start and end; a speaker hint is a     *)
(* string or an integer.  A text is a sequence of fragments, and a keyword *)
(* occurs in a text when it occurs in one of its fragments.                *)
(***************************************************************************)
StrHint(s) == [str |-> s]

IntHint(n) == [int |-> n]

\* isinstance(speaker, str)
IsStr(speaker) == "str" \in DOMAIN speaker

\* str.strip(): the text without its leading and trailing whitespace.
RECURSIVE LStrip(_)
LStrip(text) ==
  IF text # << >> /\ Head(text) = " " THEN LStrip(Tail(text)) ELSE text

RECURSIVE RStrip(_)
RStrip(text) ==
  IF text # << >> /\ text[Len(text)] = " "
    THEN RStrip(SubSeq(text, 1, Len(text) - 1))
    ELSE text

Strip(text) == RStrip(LStrip(text))

\* segment.get("text", "")
SegmentText(segment) == Get(segment, "text", << >>)

\* any(word in text for word in words)
AnyIn(words, text) == \E w \in words : In(w, text)

\* The label _identify_speaker takes from the speaker key (lines 141-150),
\* "None" when it falls through to the text.
HintLabel(segment) ==
  IF "speaker" \notin DOMAIN segment THEN "None"
  ELSE LET speaker == segment.speaker
       IN IF IsStr(speaker)
            THEN LET s == Lower(<< speaker.str >>)
                 IN IF AnyIn({"agent", "operator", "worker"}, s) THEN "worker"
                    ELSE IF AnyIn({"client", "customer", "caller"}, s)
                      THEN "customer"
                      ELSE "None"
            ELSE IF speaker.int = 0 THEN "customer" ELSE "worker"

_identify_speaker(segment) ==
  LET hinted == HintLabel(segment)
      text == Lower(SegmentText(segment))
  IN IF hinted # "None" THEN hinted
     ELSE IF AnyIn({"agent:", "operator:", "worker:"}, text) THEN "worker"
     ELSE IF AnyIn({"customer:", "client:", "caller:"}, text) THEN "customer"
     ELSE "unknown"

worker_phrases ==
  << "zdravstvuyte", "dobryy den", "kak dela", "chem mogu pomoch",
     "ponimayu", "yasno", "konechno", "pomogu", "reshim",
     "salemetsiz be", "qaiyrly kun", "qalai komektese alamyn",
     "tusindim", "anyq", "arine", "komektesemin", "sheshemiz" >>

customer_phrases ==
  << "u menya problema", "ne rabotaet", "pomogite", "chto delat",
     "menin maselem bar", "zhumys istemeidi", "komektesiniz",
     "ne isteu kerek" >>

\* Variant of _is_likely_worker_text in which a tie goes to the worker.
IsLikelyWorkerOnTie(text) ==
  CountHits(worker_phrases, Lower(text))
    >= CountHits(customer_phrases, Lower(text))

_is_likely_worker_text(text) ==
  CountHits(worker_phrases, Lower(text))
    > CountHits(customer_phrases, Lower(text))

\* The party separate_speakers appends a segment's text to (lines 116-131).
SpeakerOf(segment, text) ==
  LET speaker == _identify_speaker(segment)
  IN IF speaker = "worker" THEN "worker"
     ELSE IF speaker = "customer" THEN "customer"
     ELSE IF _is_likely_worker_text(text) THEN "worker" ELSE "customer"

\* Variant of SeparateFrom that skips a segment of unknown speaker.
RECURSIVE SeparateSkippingUnknown(_, _, _)
SeparateSkippingUnknown(segments, worker_text, customer_text) ==
  IF segments = << >> THEN << Strip(worker_text), Strip(customer_text) >>
  ELSE LET segment == Head(segments)
           text == Strip(SegmentText(segment))
           speaker == _identify_speaker(segment)
       IN IF text = << >> \/ speaker = "unknown"
            THEN SeparateSkippingUnknown(Tail(segments), worker_text,
                                         customer_text)
          ELSE IF speaker = "worker"
            THEN SeparateSkippingUnknown(Tail(segments),
                                         worker_text \o text \o << " " >>,
                                         customer_text)
            ELSE SeparateSkippingUnknown(Tail(segments), worker_text,
                                         customer_text \o text \o << " " >>)

\* The loop of separate_speakers and its return (lines 107-136).
RECURSIVE SeparateFrom(_, _, _)
SeparateFrom(segments, worker_text, customer_text) ==
  IF segments = << >> THEN << Strip(worker_text), Strip(customer_text) >>
  ELSE LET segment == Head(segments)
           text == Strip(SegmentText(segment))
       IN IF text = << >>
            THEN SeparateFrom(Tail(segments), worker_text, customer_text)
          ELSE IF SpeakerOf(segment, text) = "worker"
            THEN SeparateFrom(Tail(segments),
                              worker_text \o text \o << " " >>, customer_text)
            ELSE SeparateFrom(Tail(segments), worker_text,
                              customer_text \o text \o << " " >>)

separate_speakers(segments) ==
  IF segments = << >> THEN << << >>, << >> >>
  ELSE SeparateFrom(segments, << >>, << >>)

(***************************************************************************)
(* Conversational metrics: main.py (the deployed application) and the      *)
(* second implementation of the two timing functions in main_enhanced.py.  *)
(* Times are in whole seconds.                                             *)
(***************************************************************************)
\* The value of a missing key.
NoneHint == [none |-> TRUE]

\* Python truthiness of seg.get(key): None, "" and 0 are falsy.
Truthy(seg, key) ==
  /\ key \in DOMAIN seg
  /\ IF IsStr(seg[key]) THEN seg[key].str # "" ELSE seg[key].int # 0

\* seg.get("speaker") or seg.get("speaker_label") or seg.get("spk")
\*   or seg.get("speaker_id"): the first truthy operand, else the last one.
SpeakerField(seg) ==
  IF Truthy(seg, "speaker") THEN seg.speaker
  ELSE IF Truthy(seg, "speaker_label") THEN seg.speaker_label
  ELSE IF Truthy(seg, "spk") THEN seg.spk
  ELSE IF "speaker_id" \in DOMAIN seg THEN seg.speaker_id
  ELSE NoneHint

\* The suffixes normalize_speaker tests that a (lower-case) hint ends with.
SuffixesOf(s) ==
  CASE s = "speaker_00" -> {"_00"}
    [] s = "speaker_01" -> {"_01"}
    [] OTHER -> {}

EndsWith(s, suffix) == suffix \in SuffixesOf(s)

\* Variant of normalize_speaker that labels a segment without a hint by the
\* phrases of its text, as separate_speakers does.
NormalizeSpeakerByText(seg) ==
  LET speaker == SpeakerField(seg)
  IN IF IsStr(speaker)
       THEN (IF AnyIn({"agent", "operator", "worker"},
                      << LowerFragment(speaker.str) >>)
               THEN "worker" ELSE "customer")
     ELSE IF "int" \in DOMAIN speaker
       THEN (IF speaker.int = 0 THEN "customer" ELSE "worker")
     ELSE IF _is_likely_worker_text(SegmentText(seg)) THEN "worker"
     ELSE "customer"

normalize_speaker(seg) ==
  LET speaker == SpeakerField(seg)
  IN IF IsStr(speaker)
       THEN LET s == LowerFragment(speaker.str)
            IN IF AnyIn({"agent", "operator", "worker"}, << s >>)
                 THEN "worker"
               ELSE IF AnyIn({"client", "customer", "caller"}, << s >>)
                 THEN "customer"
               ELSE IF In("speaker_00", << s >>) \/ EndsWith(s, "_00")
                       \/ EndsWith(s, " 0")
                 THEN "customer"
               ELSE IF In("speaker_01", << s >>) \/ EndsWith(s, "_01")
                       \/ EndsWith(s, " 1")
                 THEN "worker"
               ELSE "unknown"
     ELSE IF "int" \in DOMAIN speaker
       THEN (IF speaker.int = 0 THEN "customer" ELSE "worker")
       ELSE "unknown"

\* seg.get("start", 0.0) and seg.get("end", start)
Start(seg) == Get(seg, "start", 0)

End(seg) == Get(seg, "end", Start(seg))

\* sorted(segments, key=start): a stable sort.
RECURSIVE InsertByStart(_, _)
InsertByStart(seg, sorted) ==
  IF sorted = << >> THEN << seg >>
  ELSE IF Start(Head(sorted)) <= Start(seg)
    THEN << Head(sorted) >> \o InsertByStart(seg, Tail(sorted))
    ELSE << seg >> \o sorted

RECURSIVE SortedByStart(_)
SortedByStart(segments) ==
  IF segments = << >> THEN << >>
  ELSE InsertByStart(segments[Len(segments)],
                     SortedByStart(SubSeq(segments, 1, Len(segments) - 1)))

\* The loop of calculate_response_times (main.py lines 343-361);
\* last_customer_end is -1 for None.
RECURSIVE ResponseTimesFrom(_, _, _)
ResponseTimesFrom(segs, response_times, last_customer_end) ==
  IF segs = << >> THEN response_times
  ELSE LET seg == Head(segs)
           speaker == normalize_speaker(seg)
       IN IF speaker = "worker"
            THEN IF last_customer_end # -1
                   THEN ResponseTimesFrom(
                          Tail(segs),
                          Append(response_times,
                                 Max(0, Start(seg) - last_customer_end)),
                          -1)
                   ELSE ResponseTimesFrom(Tail(segs), response_times,
                                          last_customer_end)
          ELSE IF speaker = "customer"
            THEN ResponseTimesFrom(Tail(segs), response_times, End(seg))
            ELSE ResponseTimesFrom(Tail(segs), response_times,
                                   last_customer_end)

\* Variant of calculate_response_times that records positive gaps only.
ResponseTimesPositiveOnly(segments) ==
  SelectSeq(ResponseTimesFrom(SortedByStart(segments), << >>, -1),
            LAMBDA gap : gap > 0)

calculate_response_times(segments) ==
  IF segments = << >> THEN << >>
  ELSE ResponseTimesFrom(SortedByStart(segments), << >>, -1)

\* The loop of count_interruptions (main.py lines 393-410).
RECURSIVE InterruptionsFrom(_, _)
InterruptionsFrom(prev_seg, segs) ==
  IF segs = << >> THEN 0
  ELSE LET seg == Head(segs)
           prev_speaker == normalize_speaker(prev_seg)
           curr_speaker == normalize_speaker(seg)
       IN (IF /\ curr_speaker # "unknown" /\ prev_speaker # "unknown"
              /\ curr_speaker # prev_speaker
              /\ Start(seg) < End(prev_seg)
             THEN 1 ELSE 0)
          + InterruptionsFrom(seg, Tail(segs))

count_interruptions(segments) ==
  IF segments = << >> THEN 0
  ELSE LET sorted_segments == SortedByStart(segments)
       IN InterruptionsFrom(Head(sorted_segments), Tail(sorted_segments))

\* main_enhanced.py: the gap between each segment and the one before it in
\* the list, when positive.
RECURSIVE enhanced_calculate_response_times(_)
enhanced_calculate_response_times(segments) ==
  IF Len(segments) < 2 THEN << >>
  ELSE LET n == Len(segments)
           response_time == Get(segments[n], "start", 0)
                              - Get(segments[n - 1], "end", 0)
           before == enhanced_calculate_response_times(
                       SubSeq(segments, 1, n - 1))
       IN IF response_time > 0 THEN Append(before, response_time) ELSE before

\* main_enhanced.py: the segments that start before the one before them in
\* the list ends.
RECURSIVE enhanced_count_interruptions(_)
enhanced_count_interruptions(segments) ==
  IF Len(segments) < 2 THEN 0
  ELSE LET n == Len(segments)
       IN enhanced_count_interruptions(SubSeq(segments, 1, n - 1))
          + (IF Get(segments[n], "start", 0) < Get(segments[n - 1], "end", 0)
               THEN 1 ELSE 0)

IsFiller(f) == f \in {"(100 characters)", "(200 characters)"}

\* What a slice leaves of a fragment it cuts: a piece of a filler holds no
\* phrase, as the filler; a piece of any other fragment is taken to hold
\* none either.
Cut(f) == IF IsFiller(f) THEN f ELSE "(cut)"

\* text[:n]
RECURSIVE FirstChars(_, _)
FirstChars(text, n) ==
  IF text = << >> \/ n <= 0 THEN << >>
  ELSE IF CharLen(Head(text)) <= n
    THEN << Head(text) >> \o FirstChars(Tail(text), n - CharLen(Head(text)))
    ELSE << Cut(Head(text)) >>

\* text[-n:]
RECURSIVE LastChars(_, _)
LastChars(text, n) ==
  IF text = << >> \/ n <= 0 THEN << >>
  ELSE LET last_fragment == text[Len(text)]
           before == SubSeq(text, 1, Len(text) - 1)
       IN IF CharLen(last_fragment) <= n
            THEN Append(LastChars(before, n - CharLen(last_fragment)),
                        last_fragment)
            ELSE << Cut(last_fragment) >>

greetings ==
  [ru |-> << "zdravstvuyte", "dobryy den", "dobryy vecher", "dobroe utro",
             "privet" >>,
   kk |-> << "salemetsiz be", "qaiyrly kun", "qaiyrly kesh", "qaiyrly tan",
             "salem" >>]

closings ==
  [ru |-> << "do svidaniya", "vsego dobrogo", "horoshego dnya",
             "spasibo za zvonok", "poka" >>,
   kk |-> << "sau bolynyz", "barlygy zhaqsy", "zhaqsy kun",
             "qonyrau ushin rahmet", "qosh bolynyz" >>]

\* Variant of check_greeting that looks at the whole text.
CheckGreetingAnywhere(text, language) ==
  CountHits(GetLang(greetings, language), Lower(text)) > 0

\* any(g in text.lower()[:100] for g in lang_greetings)
check_greeting(text, language) ==
  CountHits(GetLang(greetings, language), FirstChars(Lower(text), 100)) > 0

\* any(c in text.lower()[-200:] for c in lang_closings)
check_closing(text, language) ==
  CountHits(GetLang(closings, language), LastChars(Lower(text), 200)) > 0

\* Steps 2, 4 and 5 of process_call_assessment (main.py lines 214-264) on a
\* transcription: the two texts, the resolution and the four metrics that
\* go into the call analysis.  (Step 3, the emotions, is the analyzer
\* process above.)
ConversationMetrics(transcription) ==
  LET detected_language ==
        Get(transcription, "language",
            Get(transcription, "detected_language", "ru"))
      segments == Get(transcription, "segments", << >>)
      separated == separate_speakers(segments)
      failed == separated[1] = << >> /\ separated[2] = << >>
      full_text == Get(transcription, "text", << >>)
      mid_point == TextLen(full_text) \div 2
      worker_text == IF failed THEN FirstChars(full_text, mid_point)
                     ELSE separated[1]
      customer_text ==
        IF failed THEN LastChars(full_text, TextLen(full_text) - mid_point)
        ELSE separated[2]
  IN [worker_text |-> worker_text,
      customer_text |-> customer_text,
      resolution |-> detect_issue_resolution(transcription.text,
                                             customer_text,
                                             detected_language),
      response_times |-> calculate_response_times(transcription.segments),
      interruptions |-> count_interruptions(transcription.segments),
      greeting |-> check_greeting(worker_text, detected_language),
      closing |-> check_closing(worker_text, detected_language),
      language |-> detected_language]

(***************************************************************************)
(* The speaker attributor and the conversational metrics, each applied     *)
(* once to arguments drawn from bounded sets, and steps 2 to 5 of          *)
(* process_call_assessment applied to the three-utterance conversation of  *)
(* the specification's end-to-end scenario.                                *)
(***************************************************************************)
SeqsUpTo(S, n) == UNION { [1..k -> S] : k \in 0..n }

\* Speaker hints: strings that name a party, a diarization label, and the
\* channel indices 0 and 1.
Hints ==
  { StrHint("Agent"), StrHint("customer"), StrHint("SPEAKER_00"),
    IntHint(0), IntHint(1) }

UtteranceTexts ==
  { << " " >>,
    << "karta" >>,
    << " ", "Zdravstvuyte", " " >>,
    << "u menya problema" >>,
    << "ponimayu", "ne rabotaet" >>,
    << "Customer:", "Zdravstvuyte" >>,
    << "agent:", "pomogite" >> }

\* Segments with and without a speaker hint, and without a text.
Utterances ==
  [text : UtteranceTexts, speaker : Hints]
    \cup [text : UtteranceTexts] \cup [speaker : Hints]

TimingHints ==
  { StrHint("Agent"), StrHint("customer"), IntHint(0), IntHint(1) }

Timings == { << 0, 2 >>, << 1, 3 >>, << 2, 2 >>, << 3, 4 >> }

\* Segments as the timing functions read them: with and without a speaker
\* hint, and two without an end.
TimedSegments ==
  { [speaker |-> h, start |-> t[1], end |-> t[2]] :
      h \in TimingHints, t \in Timings }
    \cup { [start |-> t[1], end |-> t[2]] : t \in Timings }
    \cup { [speaker |-> StrHint("Agent"), start |-> 3],
           [speaker |-> StrHint("customer"), start |-> 0] }

SlicedFragments ==
  { " ", "Zdravstvuyte", "Do svidaniya", "spasibo za zvonok",
    "spasibo za obrashchenie", "salemetsiz be", "sau bolynyz",
    "(100 characters)", "(200 characters)" }

\* The end-to-end scenario: agent 0-2, customer 2-5, agent 5-9.
ScenarioSegments(agent_hint, customer_hint) ==
  << [text |-> << "Zdravstvuyte, chem mogu pomoch?" >>,
      start |-> 0, end |-> 2, speaker |-> agent_hint],
     [text |-> << "U menya problema s kartoy" >>,
      start |-> 2, end |-> 5, speaker |-> customer_hint],
     [text |-> << "Ponimayu, reshim", ".", " ", "Spasibo za obrashchenie" >>,
      start |-> 5, end |-> 9, speaker |-> agent_hint] >>

ScenarioText ==
  << "Zdravstvuyte, chem mogu pomoch?", " ", "U menya problema s kartoy",
     " ", "Ponimayu, reshim", ".", " ", "Spasibo za obrashchenie" >>

\* The hints of the scenario: strings that name the party.
AgentHints == { StrHint("Agent"), StrHint("operator") }

CustomerHints == { StrHint("customer"), StrHint("caller") }

Scenarios ==
  { [text |-> ScenarioText, language |-> "ru", duration |-> 9000,
     segments |-> ScenarioSegments(agent_hint, customer_hint)] :
      agent_hint \in AgentHints, customer_hint \in CustomerHints }

InitMetrics ==
  /\ AnalyzerIdle
  /\ ret = Pending
  /\ \/ /\ fn = "separate_speakers"
        /\ args \in [segments : SeqsUpTo(Utterances, MaxUtterances)]
     \/ /\ fn \in {"calculate_response_times", "count_interruptions",
                   "enhanced_calculate_response_times",
                   "enhanced_count_interruptions"}
        /\ args \in [segments : SeqsUpTo(TimedSegments, MaxSegments)]
     \/ /\ fn \in {"check_greeting", "check_closing"}
        /\ args \in [text : SeqsUpTo(SlicedFragments, MaxTextLen + 1),
                     language : Languages]
     \/ /\ fn = "process_call_assessment"
        /\ args \in [transcription : Scenarios]

CallSeparateSpeakers ==
  /\ fn = "separate_speakers" /\ ret = Pending
  /\ ret' = Returned(separate_speakers(args.segments))
  /\ UNCHANGED << analyzer_vars, engine_vars, pipeline_vars, fn, args >>

CallCalculateResponseTimes ==
  /\ fn = "calculate_response_times" /\ ret = Pending
  /\ ret' = Returned(calculate_response_times(args.segments))
  /\ UNCHANGED << analyzer_vars, engine_vars, pipeline_vars, fn, args >>

CallCountInterruptions ==
  /\ fn = "count_interruptions" /\ ret = Pending
  /\ ret' = Returned(count_interruptions(args.segments))
  /\ UNCHANGED << analyzer_vars, engine_vars, pipeline_vars, fn, args >>

CallEnhancedCalculateResponseTimes ==
  /\ fn = "enhanced_calculate_response_times" /\ ret = Pending
  /\ ret' = Returned(enhanced_calculate_response_times(args.segments))
  /\ UNCHANGED << analyzer_vars, engine_vars, pipeline_vars, fn, args >>

CallEnhancedCountInterruptions ==
  /\ fn = "enhanced_count_interruptions" /\ ret = Pending
  /\ ret' = Returned(enhanced_count_interruptions(args.segments))
  /\ UNCHANGED << analyzer_vars, engine_vars, pipeline_vars, fn, args >>

CallCheckGreeting ==
  /\ fn = "check_greeting" /\ ret = Pending
  /\ ret' = Returned(check_greeting(args.text, args.language))
  /\ UNCHANGED << analyzer_vars, engine_vars, pipeline_vars, fn, args >>

CallCheckClosing ==
  /\ fn = "check_closing" /\ ret = Pending
  /\ ret' = Returned(check_closing(args.text, args.language))
  /\ UNCHANGED << analyzer_vars, engine_vars, pipeline_vars, fn, args >>

ProcessCallAssessment ==
  /\ fn = "process_call_assessment" /\ ret = Pending
  /\ ret' = Returned(ConversationMetrics(args.transcription))
  /\ UNCHANGED << analyzer_vars, engine_vars, pipeline_vars, fn, args >>

NextMetrics ==
  \/ CallSeparateSpeakers
  \/ CallCalculateResponseTimes
  \/ CallCountInterruptions
  \/ CallEnhancedCalculateResponseTimes
  \/ CallEnhancedCountInterruptions
  \/ CallCheckGreeting
  \/ CallCheckClosing
  \/ ProcessCallAssessment

SpecMetrics == InitMetrics /\ [][NextMetrics]_vars

(***************************************************************************)
(* The scoring engine as an object that serves several calls: one engine,  *)
(* built once, scores up to MaxScored call analyses one after the other.   *)
(***************************************************************************)
\* Call analyses that differ in the customer's emotions, one that differs in
\* the agent's text, and one without the emotions.
EngineAnalyses ==
  { [PlainAnalysis EXCEPT !.emotions = emotions,
                          !.emotion_progression = progression] :
      emotions \in ScoredEmotions,
      progression \in { << >>, << Step("negative"), Step("neutral"),
                                  Step("positive") >> } }
    \cup { [PlainAnalysis EXCEPT
              !.worker_text = << "Zdravstvuyte", "ponimayu vashu problemu" >>],
           Without(PlainAnalysis, "emotions") }

InitEngine == AnalyzerIdle /\ HarnessIdle

ScoreCall ==
  /\ Len(scored) < MaxScored
  /\ \E call_analysis \in EngineAnalyses :
       /\ fn' = "calculate_total_score"
       /\ args' = call_analysis
       /\ ret' = calculate_total_score(call_analysis)
       /\ Served(call_analysis, ret')
  /\ UNCHANGED << analyzer_vars, pipeline_vars >>

NextEngine == ScoreCall

SpecEngine == InitEngine /\ [][NextEngine]_vars

(***************************************************************************)
(* The lexicon lookups of the pipeline, each applied once to a text and a  *)
(* language code, with and without a lexicon of its own.                   *)
(***************************************************************************)
LookupFunctions ==
  { "_analyze_sentiment_keywords", "_check_keywords", "check_greeting",
    "check_closing", "_calculate_empathy_score" }

\* Language codes: the two with lexicons, two without, and the empty code.
LookupLanguages == { "ru", "kk", "en", "de", "" }

LookupTexts ==
  Texts \cup SeqsUpTo(SlicedFragments, MaxTextLen) \cup WorkerTexts

\* The function named f applied to a text and a language.
Lookup(f, text, language) ==
  CASE f = "_analyze_sentiment_keywords" ->
         _analyze_sentiment_keywords(text, language)
    [] f = "_check_keywords" -> [status |-> _check_keywords(text, language)]
    [] f = "check_greeting" -> [found |-> check_greeting(text, language)]
    [] f = "check_closing" -> [found |-> check_closing(text, language)]
    [] f = "_calculate_empathy_score" ->
         [score |-> _calculate_empathy_score(
                      text, [sentiment |-> "neutral"], language)]

InitLexicons ==
  /\ AnalyzerIdle
  /\ ret = Pending
  /\ fn \in LookupFunctions
  /\ args \in [text : LookupTexts, language : LookupLanguages]

CallLookup ==
  /\ fn \in LookupFunctions /\ ret = Pending
  /\ ret' = Returned(Lookup(fn, args.text, args.language))
  /\ UNCHANGED << analyzer_vars, engine_vars, pipeline_vars, fn, args >>

NextLexicons == CallLookup

SpecLexicons == InitLexicons /\ [][NextLexicons]_vars

(***************************************************************************)
(* process_call_assessment: main.py lines 179-308 and main_enhanced.py     *)
(* lines 205-444.  One call is followed from the transcription to the      *)
(* response; the recognizer, the classifier and the file system are the    *)
(* environment.                                                            *)
(***************************************************************************)
Apps == { "main", "main_enhanced" }

\* dict | extra
With(dict, extra) ==
  [k \in DOMAIN dict \cup DOMAIN extra |->
     IF k \in DOMAIN extra THEN extra[k] ELSE dict[k]]

\* The transcription main.py (lines 202-211) and main_enhanced.py (lines
\* 228-251) put in the place of the recognizer's.
FallbackTranscription ==
  [text |-> << "Zdravstvuyte", "!", " ", "U menya problema s kartoy", ".",
               " ", "Ponimayu, pomogu reshit", ".", " ", "Spasibo", "!" >>,
   segments |->
     << [text |-> << "Zdravstvuyte", "!", " ", "U menya problema s kartoy",
                     "." >>,
         start |-> 0, end |-> 3],
        [text |-> << "Ponimayu, pomogu reshit", "." >>,
         start |-> 3, end |-> 6],
        [text |-> << "Spasibo", "!" >>, start |-> 6, end |-> 8] >>,
   language |-> "ru",
   detected_language |-> "ru"]

\* detect_language: one transcription without a language; whatever goes
\* wrong is caught and the language is "ru".
detect_language(recognizer) ==
  IF ~recognizer.file_exists \/ recognizer.raises THEN "ru"
  ELSE IF recognizer.result.language \in {"ru", "russian"} THEN "ru"
  ELSE IF recognizer.result.language \in {"kk", "kazakh"} THEN "kk"
  ELSE "ru"

\* transcribe_audio: every exception leaves it as "Transcription failed".
transcribe_audio(language, recognizer) ==
  IF ~recognizer.file_exists \/ recognizer.raises
    THEN Raised("Exception", "Transcription failed")
  ELSE LET lang == IF language = "None" THEN detect_language(recognizer)
                   ELSE language
       IN Returned([text |-> recognizer.result.text,
                    segments |-> recognizer.result.segments,
                    language |-> lang,
                    detected_language |-> recognizer.result.language,
                    duration |-> Get(recognizer.result, "duration", 0)])

\* The calls of self.model.transcribe that transcribe_audio makes: one in
\* detect_language when no language is given, one of its own.
TranscribeInvocations(language, recognizer) ==
  IF ~recognizer.file_exists THEN 0
  ELSE (IF language = "None" THEN 1 ELSE 0) + 1

\* Step 1.  main.py: a failed transcription fails the call, a transcription
\* without text is replaced.  main_enhanced.py: a failed or unavailable
\* recognizer is replaced, the recognizer's own result is taken as it is.
Transcription(app, available, language, recognizer) ==
  LET t == transcribe_audio(language, recognizer)
  IN IF app = "main"
       THEN IF t.status = "raised" THEN t
            ELSE IF t.value.text = << >> THEN Returned(FallbackTranscription)
            ELSE t
     ELSE IF ~available.speech \/ t.status = "raised"
       THEN Returned(FallbackTranscription)
     ELSE t

\* The analyzer called on each text in turn: what each call did, and on
\* which text.
RECURSIVE AnalyzeEach(_, _, _, _)
AnalyzeEach(self, texts, language, env) ==
  IF texts = << >> THEN << >>
  ELSE LET done == analyze_emotions(self, Head(texts), language,
                                    IF IsBlank(Head(texts)) THEN NoEnv ELSE env)
       IN << With(done, [text |-> Head(texts)]) >>
          \o AnalyzeEach(done.self, Tail(texts), language, env)

\* The segments before the first one without a "text" (every segment of the
\* model has a "start"), and their texts.
RECURSIVE TextPrefix(_)
TextPrefix(segments) ==
  IF segments = << >> \/ "text" \notin DOMAIN Head(segments) THEN << >>
  ELSE << Head(segments) >> \o TextPrefix(Tail(segments))

RECURSIVE PrefixTexts(_)
PrefixTexts(segments) ==
  IF segments = << >> \/ "text" \notin DOMAIN Head(segments) THEN << >>
  ELSE << Head(segments).text >> \o PrefixTexts(Tail(segments))

\* What step 3 leaves: the calls made, whether KeyError was raised, and the
\* two values for the call analysis.
EmotionsOf(prefix, segments, dones) ==
  [dones |-> dones,
   raised |-> Len(prefix) < Len(segments),
   emotions |-> dones[1].ret,
   emotion_progression |->
     [i \in 1..Len(prefix) |->
        [timestamp |-> prefix[i].start,
         emotions |-> dones[i + 1].ret,
         text_snippet |-> FirstChars(prefix[i].text, 100)]]]

\* Step 3: analyze_emotions(customer_text, ...) and then
\* track_emotion_progression, which calls analyze_emotions(segment["text"])
\* for every segment and raises KeyError at a segment without a text.
Emotions(self, customer_text, segments, language, env) ==
  EmotionsOf(TextPrefix(segments), segments,
             AnalyzeEach(self, << customer_text >> \o PrefixTexts(segments),
                         language, env))

\* The call analysis of main.py (lines 271-283) from the metrics m and the
\* emotions e.
MainCallAnalysis(m, e, transcription) ==
  [dones |-> e.dones,
   raised |-> e.raised,
   call_analysis |->
     [emotions |-> e.emotions,
      emotion_progression |-> e.emotion_progression,
      resolution |-> m.resolution,
      worker_text |-> m.worker_text,
      customer_text |-> m.customer_text,
      response_times |-> m.response_times,
      interruptions |-> m.interruptions,
      greeting |-> m.greeting,
      closing |-> m.closing,
      language |-> m.language,
      transcription |-> transcription]]

AnalysisMainWith(m, self, transcription, env) ==
  MainCallAnalysis(m,
                   Emotions(self, m.customer_text, transcription.segments,
                            m.language, env),
                   transcription)

\* Steps 2 to 5 of main.py (lines 219-283).
AnalysisMain(self, transcription, env) ==
  AnalysisMainWith(ConversationMetrics(transcription), self, transcription, env)

\* main_enhanced.py lines 309-310 and 326.
MockEmotions == [sentiment |-> "positive", sentiment_confidence |-> 800]

MockResolution == [resolved |-> TRUE, resolution_score |-> 85]

\* full_text[:mid_point], full_text[mid_point:]
HalfSplit(full_text) ==
  << FirstChars(full_text, TextLen(full_text) \div 2),
     LastChars(full_text, TextLen(full_text) - TextLen(full_text) \div 2) >>

\* Step 2 of main_enhanced.py (lines 258-281).
EnhancedSeparated(available, transcription) ==
  IF available.speech
    THEN separate_speakers(Get(transcription, "segments", << >>))
    ELSE HalfSplit(Get(transcription, "text", << >>))

\* The call analysis of main_enhanced.py (lines 344-356): a component that
\* is not available or that raised is replaced by fixed values.
EnhancedCallAnalysis(available, transcription, detected_language, separated, e) ==
  [dones |-> IF available.emotion THEN e.dones ELSE << >>,
   raised |-> FALSE,
   call_analysis |->
     [emotions |-> IF available.emotion /\ ~e.raised THEN e.emotions
                   ELSE MockEmotions,
      emotion_progression |->
        IF available.emotion /\ ~e.raised THEN e.emotion_progression
        ELSE << >>,
      resolution |->
        IF available.resolution
          THEN detect_issue_resolution(transcription.text, separated[2],
                                       detected_language)
          ELSE MockResolution,
      worker_text |-> separated[1],
      customer_text |-> separated[2],
      response_times |->
        enhanced_calculate_response_times(
          Get(transcription, "segments", << >>)),
      interruptions |->
        enhanced_count_interruptions(Get(transcription, "segments", << >>)),
      greeting |-> check_greeting(separated[1], detected_language),
      closing |-> check_closing(separated[1], detected_language),
      language |-> detected_language,
      transcription |-> transcription]]

AnalysisEnhancedWith(self, available, transcription, detected_language, separated, env) ==
  EnhancedCallAnalysis(available, transcription, detected_language, separated,
                       Emotions(self, separated[2],
                                Get(transcription, "segments", << >>),
                                detected_language, env))

\* Steps 2 to 5 of main_enhanced.py (lines 253-356).
AnalysisEnhanced(self, available, transcription, env) ==
  AnalysisEnhancedWith(self, available, transcription,
                       Get(transcription, "language",
                           Get(transcription, "detected_language", "ru")),
                       EnhancedSeparated(available, transcription), env)

\* Steps 2 to 5 of the application `app`.
Analysis(app, self, available, transcription, env) ==
  IF app = "main" THEN AnalysisMain(self, transcription, env)
  ELSE AnalysisEnhanced(self, available, transcription, env)

\* The scores main_enhanced.py saves when the engine raised (lines 366-391)
\* or could not be imported (lines 395-420); the two differ in the lines
\* of the breakdown.  Scores in tenths, as calculate_total_score's.
MockScores(call_analysis, strengths, improvements) ==
  [total_score |-> 785,
   performance_grade |-> "Good",
   emotion_score |-> 800,
   resolution_score |-> 850,
   communication_score |-> 750,
   professionalism_score |-> 700,
   empathy_score |-> 800,
   efficiency_score |-> 750,
   breakdown |->
     [strengths |-> << strengths >>,
      improvements |-> << improvements >>,
      detailed_analysis |->
        [call_duration |-> 245000,
         language_detected |-> call_analysis.language,
         greeting_provided |-> call_analysis.greeting,
         proper_closing |-> call_analysis.closing,
         interruption_count |-> call_analysis.interruptions,
         average_response_time |-> 2300,
         customer_sentiment |->
           Get(call_analysis.emotions, "sentiment", "neutral"),
         issue_resolved |-> Get(call_analysis.resolution, "resolved", TRUE),
         worker_text_length |-> TextLen(call_analysis.worker_text),
         customer_text_length |-> TextLen(call_analysis.customer_text)]]]

\* Step 6 from the engine's result r: main.py takes it; main_enhanced.py
\* takes fixed scores when the engine could not be imported or raised.
\* `engine` tells whether calculate_total_score was called.
ScoresFrom(app, available, call_analysis, r) ==
  IF app = "main" THEN [engine |-> TRUE, served |-> r, result |-> r]
  ELSE IF ~available.scoring
    THEN [engine |-> FALSE,
          served |-> r,
          result |-> Returned(MockScores(
                       call_analysis, "System running in minimal mode",
                       "Full AI features not available - upgrade requirements.txt"))]
  ELSE IF r.status = "raised"
    THEN [engine |-> TRUE,
          served |-> r,
          result |-> Returned(MockScores(
                       call_analysis, "System running with fallbacks",
                       "Some AI features using fallbacks"))]
  ELSE [engine |-> TRUE, served |-> r, result |-> r]

Scores(app, available, call_analysis) ==
  ScoresFrom(app, available, call_analysis,
             calculate_total_score(call_analysis))

\* What Whisper returns: nothing heard, the scenario's conversation, two
\* segments in Kazakh, and a result with a segment that has no text.
\* Two-segment results without speaker keys, as Whisper returns them: a
\* second segment after a gap, overlapping the first, listed before it in
\* time, and two segments without duration.
HintlessTimings ==
  { << << 0, 2 >>, << 3, 4 >> >>,
    << << 0, 2 >>, << 1, 3 >> >>,
    << << 1, 3 >>, << 0, 2 >> >>,
    << << 2, 2 >>, << 2, 2 >> >> }

HintlessTexts ==
  { << << "u menya problema" >>, << "ponimayu" >> >>,
    << << "ponimayu" >>, << "karta" >> >>,
    << << "agent:", "pomogite" >>, << "karta" >> >> }

HintlessResults ==
  { [text |-> texts[1] \o << " " >> \o texts[2],
     segments |-> << [text |-> texts[1],
                      start |-> timing[1][1], end |-> timing[1][2]],
                     [text |-> texts[2],
                      start |-> timing[2][1], end |-> timing[2][2]] >>,
     language |-> "ru"] :
      texts \in HintlessTexts, timing \in HintlessTimings }

RecognizerResults ==
  { [text |-> << >>, segments |-> << >>, language |-> "ru"],
    [text |-> ScenarioText,
     segments |-> ScenarioSegments(StrHint("Agent"), StrHint("customer")),
     language |-> "ru",
     duration |-> 9000],
    [text |-> << "salemetsiz be", " ", "rahmet" >>,
     segments |-> << [text |-> << "salemetsiz be" >>, start |-> 0, end |-> 2],
                     [text |-> << "rahmet" >>, start |-> 3, end |-> 4] >>,
     language |-> "kk"],
    [text |-> << "karta" >>,
     segments |-> << [text |-> << "karta" >>, start |-> 0, end |-> 1],
                     [start |-> 1, end |-> 2] >>,
     language |-> "en"] }
    \cup HintlessResults

NoResult == [text |-> << >>, segments |-> << >>, language |-> "ru"]

\* The recognizer of one call: the audio file is missing, the model raises,
\* or it returns a result.
Recognizers ==
  { [file_exists |-> FALSE, raises |-> FALSE, result |-> NoResult],
    [file_exists |-> TRUE, raises |-> TRUE, result |-> NoResult] }
    \cup { [file_exists |-> TRUE, raises |-> FALSE, result |-> result] :
             result \in RecognizerResults }

AllAvailable ==
  [speech |-> TRUE, emotion |-> TRUE, resolution |-> TRUE, scoring |-> TRUE]

\* The components main_enhanced.py could import (lines 19-86); main.py
\* imports them all or does not start.
Availabilities(app) ==
  IF app = "main" THEN { AllAvailable }
  ELSE { AllAvailable } \cup
       { [AllAvailable EXCEPT ![component] = FALSE] :
           component \in DOMAIN AllAvailable }

\* save_assessment_to_db: it writes the file, or it raises before the file
\* is opened, or it raises while json.dump is writing it.
DiskOutcomes == { "written", "raises_before_open", "raises_in_dump" }

\* The classifier of one call, as the analyzer can observe it.
PipelineEnvs ==
  { env \in ObservableEnvs(Self) :
      /\ env.model_loads /\ env.tokenizer_loads
      /\ env.emotions \in { << >>, << [label |-> "optimism", score |-> 700] >> } }

\* The except clause of process_call_assessment: HTTPException(500).
Failed(stage) ==
  With(pipeline, [pc |-> "failed", failed_in |-> stage,
                  response |-> [status_code |-> 500]])

\* upload_call / assess_call hand a call to process_call_assessment.
StartAssessment ==
  /\ pipeline.pc = "idle"
  /\ \E app \in Apps, language \in {"None", "ru"},
        recognizer \in Recognizers, env \in PipelineEnvs,
        disk \in DiskOutcomes :
       \E available \in Availabilities(app) :
         pipeline' = With(pipeline,
                          [pc |-> "transcribe", app |-> app,
                           language |-> language, recognizer |-> recognizer,
                           env |-> env, disk |-> disk,
                           available |-> available,
                           asr_calls |-> 0, classifier_calls |-> 0])
  /\ UNCHANGED << analyzer_vars, engine_vars, harness_vars >>

\* Step 1.
TranscribeAudio ==
  /\ pipeline.pc = "transcribe"
  /\ LET t == Transcription(pipeline.app, pipeline.available,
                            pipeline.language, pipeline.recognizer)
         asr_calls == IF pipeline.available.speech
                        THEN TranscribeInvocations(pipeline.language,
                                                   pipeline.recognizer)
                        ELSE 0
     IN pipeline' =
          IF t.status = "raised"
            THEN With(Failed("transcribe"), [asr_calls |-> asr_calls])
            ELSE With(pipeline, [pc |-> "analyze", asr_calls |-> asr_calls,
                                 transcription |-> t.value])
  /\ UNCHANGED << analyzer_vars, engine_vars, harness_vars >>

RECURSIVE TallyAll(_, _, _)
TallyAll(tally, dones, model) ==
  IF dones = << >> THEN tally
  ELSE TallyAll(Tally(tally, Head(dones).loaded[model]), Tail(dones), model)

\* The analyzer after the calls `dones` of one assessment.
Analyzed(dones, language) ==
  LET n == Len(dones)
  IN /\ emotion_classifier' = dones[n].self.emotion_classifier
     /\ sentiment_model' = dones[n].self.sentiment_model
     /\ sentiment_tokenizer' = dones[n].self.sentiment_tokenizer
     /\ calls' = calls + n
     /\ loads' = [classifier |-> TallyAll(loads.classifier, dones, "classifier"),
                  sentiment_model |->
                    TallyAll(loads.sentiment_model, dones, "sentiment_model")]
     /\ last' = [method |-> "analyze_emotions", text |-> dones[n].text,
                 language |-> language,
                 keyword_sentiment |-> dones[n].keyword_sentiment,
                 path |-> dones[n].path,
                 classifier_load |-> dones[n].loaded.classifier,
                 invoked |-> dones[n].invoked, threw |-> dones[n].threw,
                 ret |-> dones[n].ret]
     /\ UNCHANGED analyzer_class

\* The process after steps 2 to 5 gave `a`.
AnalyzedAs(a) ==
  /\ IF a.dones = << >> THEN UNCHANGED analyzer_vars
     ELSE Analyzed(a.dones, a.call_analysis.language)
  /\ pipeline' =
       With(IF a.raised THEN Failed("analyze")
            ELSE With(pipeline, [pc |-> "score",
                                 call_analysis |-> a.call_analysis]),
            [classifier_calls |->
               Cardinality({ i \in DOMAIN a.dones : a.dones[i].invoked })])

\* Steps 2 to 5.
AnalyzeCall ==
  /\ pipeline.pc = "analyze"
  /\ AnalyzedAs(Analysis(pipeline.app, Self, pipeline.available,
                         pipeline.transcription, pipeline.env))
  /\ UNCHANGED << engine_vars, harness_vars >>

\* The process after step 6 gave `s`.
ScoredAs(s) ==
  /\ IF s.engine THEN Served(pipeline.call_analysis, s.served)
     ELSE UNCHANGED engine_vars
  /\ pipeline' =
       IF s.result.status = "raised" THEN Failed("score")
       ELSE With(pipeline, [pc |-> "save", engine |-> s.engine,
                            scores |-> s.result.value])

\* Step 6.
CalculateScores ==
  /\ pipeline.pc = "score"
  /\ ScoredAs(Scores(pipeline.app, pipeline.available,
                     pipeline.call_analysis))
  /\ UNCHANGED << analyzer_vars, harness_vars >>

\* save_assessment_to_db and the return of the assessment.  The file is
\* opened for writing before json.dump runs, so a dump that raises leaves
\* a file that is not complete.
SaveAssessment ==
  /\ pipeline.pc = "save"
  /\ LET record == [scores |-> pipeline.scores,
                    analysis |-> pipeline.call_analysis,
                    complete |-> pipeline.disk = "written"]
     IN pipeline' =
          CASE pipeline.disk = "written" ->
                 With(pipeline, [pc |-> "done",
                                 records |-> Append(pipeline.records, record),
                                 response |-> [status_code |-> 200,
                                               scores |-> pipeline.scores]])
            [] pipeline.disk = "raises_before_open" -> Failed("save")
            [] pipeline.disk = "raises_in_dump" ->
                 With(Failed("save"),
                      [records |-> Append(pipeline.records, record)])
  /\ UNCHANGED << analyzer_vars, engine_vars, harness_vars >>

InitPipeline == AnalyzerIdle /\ HarnessIdle

NextPipeline ==
  \/ StartAssessment
  \/ TranscribeAudio
  \/ AnalyzeCall
  \/ CalculateScores
  \/ SaveAssessment

SpecPipeline == InitPipeline /\ [][NextPipeline]_vars

(***************************************************************************)
(* The scoring engine applied once to a call analysis in which only the    *)
(* inputs of the communication and professionalism scores vary: the agent  *)
(* text, the response times, the interruptions, the greeting and closing   *)
(* flags and the language of the call.                                     *)
(***************************************************************************)
AgentTexts ==
  { << >>,
    << "ponimayu" >>,
    << "bolmady" >>,
    << "idiot" >>,
    << "aqymaq" >>,
    << "otinemin" >>,
    << "blin, chert, durak" >>,
    << "IDIOT", "blin, chert, durak" >>,
    << "ponimayu, yasno, konechno, pomogu, razberemsya, obyasnyu" >>,
    << "ne znayu, ne ponimayu, ne mogu, ne poluchaetsya, slozhno" >>,
    << "zdravstvuyte, spasibo, pozhaluysta, izvinite, blagodaryu, razreshite, pozvolte",
       "budte dobry, ne mogli by, esli mozhno, proshu vas" >> }

CategoryAnalyses ==
  { [PlainAnalysis EXCEPT !.worker_text = a.worker_text,
                          !.response_times = a.response_times,
                          !.interruptions = a.interruptions,
                          !.greeting = a.greeting,
                          !.closing = a.closing,
                          !.language = a.language] :
      a \in [worker_text : AgentTexts,
             response_times : ScoredResponseTimes \cup { << 2 >>, << 5 >> },
             interruptions : ScoredInterruptions,
             greeting : BOOLEAN,
             closing : BOOLEAN,
             language : {"ru", "kk"}] }

InitCategories ==
  /\ AnalyzerIdle
  /\ fn = "calculate_total_score"
  /\ args \in CategoryAnalyses
  /\ ret = Pending

NextCategories == CallCalculateTotalScore

SpecCategories == InitCategories /\ [][NextCategories]_vars

(***************************************************************************)
(* Properties.                                                             *)
(***************************************************************************)
AnalyzerCalled == last.method # "None"

Scored == fn = "calculate_total_score" /\ ret.status # "pending"

\* C1: calculate_total_score never raises on partial data: whatever inputs
\* are missing it returns a result, in which each category whose input is
\* missing has its base score (emotion 50, communication 70,
\* professionalism 50, empathy 60, efficiency 70).
C1_NeverRaisesOnPartialData ==
  Scored =>
    /\ ret.status = "returned"
    /\ ({"emotions", "emotion_progression"} \ DOMAIN args # {}) =>
         ret.value.emotion_score = 500
    /\ ({"worker_text", "response_times", "interruptions"} \ DOMAIN args # {}) =>
         ret.value.communication_score = 700
    /\ ({"worker_text", "greeting", "closing"} \ DOMAIN args # {}) =>
         ret.value.professionalism_score = 500
    /\ ({"worker_text", "emotions"} \ DOMAIN args # {}) =>
         ret.value.empathy_score = 600
    /\ ({"response_times", "interruptions", "transcription"} \ DOMAIN args # {}) =>
         ret.value.efficiency_score = 700

\* C2: for every call analysis whose resolution score comes from the
\* Resolution Detector, every category score and the total that
\* calculate_total_score returns lie in [0, 100].
C2_ScoresWithinRange ==
  (Scored /\ ret.status = "returned") =>
    \A score \in {"total_score", "emotion_score", "resolution_score",
                  "communication_score", "professionalism_score",
                  "empathy_score", "efficiency_score"} :
      ret.value[score] >= 0 /\ ret.value[score] <= 1000

\* C2, its case: interruptions push communication to the floor while an
\* out-of-range confidence pushes emotion to the ceiling.
C2_Witness ==
  /\ Scored /\ ret.status = "returned"
  /\ args.interruptions = MaxInterruptions
  /\ args.emotions.sentiment_confidence > 1000
  /\ ret.value.communication_score = 0
  /\ ret.value.emotion_score = 1000

\* C3: in every result the performance grade is the grade the thresholds
\* give for the returned total score: >= 90 Excellent, >= 80 Good,
\* >= 70 Satisfactory, >= 60 Needs Improvement, else Poor.
C3_GradeOfReturnedTotal ==
  (Scored /\ ret.status = "returned") =>
    ret.value.performance_grade =
      (IF ret.value.total_score >= 900 THEN "Excellent"
       ELSE IF ret.value.total_score >= 800 THEN "Good"
       ELSE IF ret.value.total_score >= 700 THEN "Satisfactory"
       ELSE IF ret.value.total_score >= 600 THEN "Needs Improvement"
       ELSE "Poor")

\* C4: for every status and every final sentiment the resolution score is
\* clamp(base + modifier, 0, 100) with bases 90/60/50/20 and modifiers
\* +10/0/-10, and the resolved flag returned with it is exactly (score > 70):
\* partial with neutral is 60 and not resolved, resolved with negative is 80
\* and resolved.
C4_ResolutionScore ==
  (fn \in {"_calculate_resolution_score", "detect_issue_resolution"}
     /\ ret.status = "returned") =>
    LET r == ret.value
        base == CASE r.status = "resolved" -> 90
                  [] r.status = "partial" -> 60
                  [] r.status = "unclear" -> 50
                  [] r.status = "unresolved" -> 20
        modifier == CASE r.final_sentiment = "positive" -> 10
                      [] r.final_sentiment = "neutral" -> 0
                      [] r.final_sentiment = "negative" -> -10
    IN /\ fn = "_calculate_resolution_score" =>
            r.status = args.status /\ r.final_sentiment = args.sentiment
       /\ r.resolution_score = Max(0, Min(100, base + modifier))
       /\ r.resolved = (r.resolution_score > 70)
       /\ (r.status = "partial" /\ r.final_sentiment = "neutral") =>
            (r.resolution_score = 60 /\ r.resolved = FALSE)
       /\ (r.status = "resolved" /\ r.final_sentiment = "negative") =>
            (r.resolution_score = 80 /\ r.resolved = TRUE)

\* C4, its case: a customer text classified partial scores 60, not resolved.
C4_Witness ==
  /\ fn = "detect_issue_resolution" /\ ret.status = "returned"
  /\ ret.value.status = "partial"
  /\ ret.value.resolution_score = 60
  /\ ret.value.resolved = FALSE

\* C5: for every language and every empty or whitespace-only text,
\* analyze_emotions returns neutral with confidence 0.5 and method keyword,
\* before any model is loaded or invoked.
C5_EmptyTextIsNeutralKeyword ==
  (last.method = "analyze_emotions" /\ IsBlank(last.text)) =>
    /\ last.ret.sentiment = "neutral"
    /\ last.ret.sentiment_confidence = 500
    /\ "analysis_method" \in DOMAIN last.ret
    /\ last.ret.analysis_method = "keyword_based"
    /\ ~last.classifier_load.attempted
    /\ ~last.invoked

\* C6: when the sentiment model is unavailable in a call (its load failed, or
\* invoking it threw), the call returns exactly the label and the confidence of
\* the keyword pass on that text, tagged keyword_based.
C6_KeywordFallback ==
  (AnalyzerCalled /\ (last.classifier_load.failed \/ last.threw)) =>
    LET keyword == _analyze_sentiment_keywords(last.text, last.language)
    IN /\ last.ret.sentiment = keyword.sentiment
       /\ last.ret.sentiment_confidence = keyword.confidence
       /\ "analysis_method" \in DOMAIN last.ret
       /\ last.ret.analysis_method = "keyword_based"

\* C6, its case: the loaded model threw on a text with a negative majority.
C6_Witness ==
  /\ last.method = "analyze_emotions"
  /\ last.threw
  /\ last.ret.sentiment = "negative"
  /\ last.ret.sentiment_confidence = 900

\* C7: over any sequence of calls the sentiment model is initialized at most
\* once: once a load has been attempted, whether it succeeded or failed, no
\* later call attempts it again.
C7_LoadAttemptedAtMostOnce ==
  [][loads.classifier.attempts > 0 =>
       loads'.classifier.attempts = loads.classifier.attempts]_vars

\* C8: when the labels of the keyword result and of the model result agree the
\* fused result has that label and confidence 0.7 * keyword + 0.3 * model;
\* when they disagree the fused result is the keyword result.
C8_Fusion ==
  (fn = "_combine_sentiment_analysis" /\ ret.status = "returned") =>
    LET keyword == args.keyword_result
        ml == _extract_sentiment_from_emotions(args.emotions)
    IN IF keyword.sentiment = ml.sentiment
         THEN /\ ret.value.sentiment = keyword.sentiment
              /\ 10 * ret.value.confidence
                   = 7 * keyword.confidence + 3 * ml.confidence
         ELSE ret.value = keyword

\* C8, its case: both passes say positive, keyword 0.9 and model 0.95.
C8_Witness ==
  /\ fn = "_combine_sentiment_analysis" /\ ret.status = "returned"
  /\ args.keyword_result = [sentiment |-> "positive", confidence |-> 900]
  /\ _extract_sentiment_from_emotions(args.emotions)
       = [sentiment |-> "positive", confidence |-> 950]
  /\ ret.value = [sentiment |-> "positive", confidence |-> 915]

\* C9: with p positive and n negative lexicon hits the keyword pass returns
\* positive if p > n and negative if n > p, with confidence
\* min(0.9, 0.5 + 0.1 * max(p, n)), and neutral with confidence 0.5 if p = n.
C9_KeywordPass ==
  (fn = "_analyze_sentiment_keywords" /\ ret.status = "returned") =>
    LET p == positive_count(args.text, args.language)
        n == negative_count(args.text, args.language)
    IN /\ p > n => ret.value = [sentiment |-> "positive",
                                confidence |-> Min(900, 500 + 100 * p)]
       /\ n > p => ret.value = [sentiment |-> "negative",
                                confidence |-> Min(900, 500 + 100 * n)]
       /\ p = n => ret.value = [sentiment |-> "neutral", confidence |-> 500]

\* C9, its case: five positive hits against one negative hit, capped at 0.9.
C9_Witness ==
  /\ fn = "_analyze_sentiment_keywords" /\ ret.status = "returned"
  /\ positive_count(args.text, args.language) = 5
  /\ negative_count(args.text, args.language) = 1
  /\ ret.value = [sentiment |-> "positive", confidence |-> 900]

\* C10: every sentiment result an analyzer call returns has a label in
\* {positive, negative, neutral} and a confidence in [0, 1].
C10_SentimentResultWellFormed ==
  AnalyzerCalled =>
    /\ last.ret.sentiment \in Sentiments
    /\ last.ret.sentiment_confidence >= 0
    /\ last.ret.sentiment_confidence <= 1000

\* Some keyword of the category `status` of the language's resolution
\* lexicon occurs in the lower-cased text.
CategoryOccurs(status, text, language) ==
  \E i \in 1..3 :
    LET item == GetLang(resolution_keywords, language)[i]
    IN /\ item.status = status
       /\ \E k \in DOMAIN item.keywords : In(item.keywords[k], Lower(text))

\* C13: the resolution status of a customer text is the first category, in
\* the order resolved, unresolved, partial, one of whose keywords occurs in
\* the text, whatever later categories also match; it is unclear only when
\* no keyword of any category occurs.
C13_FirstMatchingCategory ==
  (fn = "detect_issue_resolution" /\ ret.status = "returned") =>
    LET occurs(status) ==
          CategoryOccurs(status, args.customer_text, args.language)
        status == ret.value.status
    IN /\ occurs("resolved") => status = "resolved"
       /\ (~occurs("resolved") /\ occurs("unresolved")) => status = "unresolved"
       /\ (~occurs("resolved") /\ ~occurs("unresolved") /\ occurs("partial"))
            => status = "partial"
       /\ (status = "unclear") <=>
            (~occurs("resolved") /\ ~occurs("unresolved") /\ ~occurs("partial"))

\* C13, its case: "ne resheno" holds the resolved keyword "resheno" and is an
\* unresolved keyword itself, the text holds a partial keyword too, and the
\* status is resolved.
C13_Witness ==
  /\ fn = "detect_issue_resolution" /\ ret.status = "returned"
  /\ CategoryOccurs("resolved", args.customer_text, args.language)
  /\ CategoryOccurs("unresolved", args.customer_text, args.language)
  /\ CategoryOccurs("partial", args.customer_text, args.language)
  /\ ret.value.status = "resolved"

\* The words of a text: its fragments other than whitespace.
Words(text) == SelectSeq(text, LAMBDA f : f # " ")

\* The words of the utterances of U labelled `party`, in the order of U.
RECURSIVE WordsOf(_, _, _)
WordsOf(U, label, party) ==
  IF U = << >> THEN << >>
  ELSE (IF Head(label) = party THEN Words(SegmentText(Head(U))) ELSE << >>)
         \o WordsOf(Tail(U), Tail(label), party)

\* C11: separate_speakers returns two strings that together hold exactly the
\* words of U: there is a way to give each utterance to one of the two
\* parties such that the agent string is the words of the agent's
\* utterances, each once and in the order of U, and the customer string
\* the words of the customer's; no utterance text is dropped or duplicated.
C11_WordsPartitioned ==
  (fn = "separate_speakers" /\ ret.status = "returned") =>
    \E label \in [1..Len(args.segments) -> {"worker", "customer"}] :
      /\ Words(ret.value[1]) = WordsOf(args.segments, label, "worker")
      /\ Words(ret.value[2]) = WordsOf(args.segments, label, "customer")

\* C11, its case: two utterances with words, the second without a hint or a
\* marker, both attributed to the customer and kept in order.
C11_Witness ==
  /\ fn = "separate_speakers" /\ ret.status = "returned"
  /\ Len(args.segments) = 2
  /\ _identify_speaker(args.segments[2]) = "unknown"
  /\ Words(SegmentText(args.segments[1])) # << >>
  /\ Words(SegmentText(args.segments[2])) # << >>
  /\ Words(SegmentText(args.segments[1])) # Words(SegmentText(args.segments[2]))
  /\ ret.value[1] = << >>
  /\ Words(ret.value[2]) = Words(SegmentText(args.segments[1]))
                             \o Words(SegmentText(args.segments[2]))

\* The party an utterance's speaker hint names: a string holding an agent,
\* operator or worker synonym names the agent, one holding a client,
\* customer or caller synonym the customer, the integer 0 the customer and
\* any other integer the agent; "none" when there is no hint or it names
\* neither.
HintParty(segment) ==
  IF "speaker" \notin DOMAIN segment THEN "none"
  ELSE IF IsStr(segment.speaker)
    THEN LET s == << LowerFragment(segment.speaker.str) >>
         IN IF In("agent", s) \/ In("operator", s) \/ In("worker", s)
              THEN "worker"
            ELSE IF In("client", s) \/ In("customer", s) \/ In("caller", s)
              THEN "customer"
              ELSE "none"
    ELSE IF segment.speaker.int = 0 THEN "customer" ELSE "worker"

\* The lexical score: the agent only when strictly more agent phrases than
\* customer phrases occur in the text.
LexicalParty(segment) ==
  LET text == Lower(SegmentText(segment))
  IN IF CountHits(worker_phrases, text) > CountHits(customer_phrases, text)
       THEN "worker" ELSE "customer"

\* The party a marker in the text names ("agent:", "customer:" and their
\* synonyms), the agent's markers first; "none" without a marker.
MarkerParty(segment) ==
  LET text == Lower(SegmentText(segment))
  IN IF In("agent:", text) \/ In("operator:", text) \/ In("worker:", text)
       THEN "worker"
     ELSE IF In("customer:", text) \/ In("client:", text) \/ In("caller:", text)
       THEN "customer"
       ELSE "none"

HintThenLexical(segment) ==
  IF HintParty(segment) # "none" THEN HintParty(segment)
  ELSE LexicalParty(segment)

HintThenMarkerThenLexical(segment) ==
  IF HintParty(segment) # "none" THEN HintParty(segment)
  ELSE IF MarkerParty(segment) # "none" THEN MarkerParty(segment)
  ELSE LexicalParty(segment)

\* separate_speakers has given every utterance to the party Party names.
AttributedBy(Party(_)) ==
  (fn = "separate_speakers" /\ ret.status = "returned") =>
    LET label == [i \in 1..Len(args.segments) |-> Party(args.segments[i])]
    IN /\ Words(ret.value[1]) = WordsOf(args.segments, label, "worker")
       /\ Words(ret.value[2]) = WordsOf(args.segments, label, "customer")

\* C12 as stated: separate_speakers labels each utterance by its speaker
\* hint when the hint resolves, and by the lexical score alone when no hint
\* resolves: agent only if the agent-phrase count is strictly greater than
\* the customer-phrase count, ties going to the customer.
C12_HintThenLexical == AttributedBy(HintThenLexical)

\* C12, amended: separate_speakers labels each utterance by its speaker hint
\* when the hint resolves; when no hint resolves, by a speaker marker in the
\* text ("agent:", "operator:", "worker:" for the agent, else "customer:",
\* "client:", "caller:" for the customer); and by the lexical score only
\* when there is no such marker either: agent only if the agent-phrase
\* count is strictly greater than the customer-phrase count, ties
\* (including 0 to 0) going to the customer.
C12_HintThenMarkerThenLexical == AttributedBy(HintThenMarkerThenLexical)

\* C12, its case: an utterance whose hint is a diarization label that names
\* no party, without a marker, with one agent phrase and one customer
\* phrase, goes to the customer.
C12_Witness ==
  /\ fn = "separate_speakers" /\ ret.status = "returned"
  /\ Len(args.segments) = 1
  /\ "speaker" \in DOMAIN args.segments[1]
  /\ HintParty(args.segments[1]) = "none"
  /\ MarkerParty(args.segments[1]) = "none"
  /\ CountHits(worker_phrases, Lower(SegmentText(args.segments[1]))) = 1
  /\ CountHits(customer_phrases, Lower(SegmentText(args.segments[1]))) = 1
  /\ ret.value[1] = << >>
  /\ ret.value[2] # << >>

\* The utterances in start-time order, ties in their original order.
InStartOrder(U) ==
  LET n == Len(U)
      order == CHOOSE p \in [1..n -> 1..n] :
                 \A i, j \in 1..n :
                   i < j => \/ Start(U[p[i]]) < Start(U[p[j]])
                            \/ /\ Start(U[p[i]]) = Start(U[p[j]])
                               /\ p[i] < p[j]
  IN [i \in 1..n |-> U[order[i]]]

\* The speaker of an utterance: the party its hint names, else unknown.
Speaker(segment) ==
  IF HintParty(segment) = "none" THEN "unknown" ELSE HintParty(segment)

\* The customer turn an agent utterance S[j] answers: the last utterance of
\* known speaker before it, when that one is the customer's (0 when there
\* is none, or when it is the agent's: the turn is closed or never opened).
OpenTurn(S, j) ==
  LET known == { i \in 1..(j - 1) : Speaker(S[i]) # "unknown" }
      i == CHOOSE k \in known : \A m \in known : m <= k
  IN IF known # {} /\ Speaker(S[i]) = "customer" THEN i ELSE 0

\* The gaps of the first j utterances of S.
RECURSIVE Gaps(_, _)
Gaps(S, j) ==
  IF j = 0 THEN << >>
  ELSE IF Speaker(S[j]) = "worker" /\ OpenTurn(S, j) # 0
    THEN Append(Gaps(S, j - 1),
                Max(0, Start(S[j]) - End(S[OpenTurn(S, j)])))
    ELSE Gaps(S, j - 1)

TimingFunctions ==
  {"calculate_response_times", "enhanced_calculate_response_times"}

\* C14: calculate_response_times processes utterances in start-time order
\* and records max(0, agentStart - customerEnd) exactly when an agent
\* utterance follows a customer utterance that has not yet been answered:
\* one gap per customer turn, none for an agent utterance with no open
\* customer turn, unknown-speaker utterances neither open nor close a turn,
\* and every recorded gap is >= 0.
C14_ResponseTimes ==
  (fn \in TimingFunctions /\ ret.status = "returned") =>
    LET S == InStartOrder(args.segments)
    IN /\ ret.value = Gaps(S, Len(S))
       /\ \A k \in DOMAIN ret.value : ret.value[k] >= 0

CountingFunctions == {"count_interruptions", "enhanced_count_interruptions"}

\* The pairs of utterances adjacent in S in which the later one starts
\* strictly before the earlier one ends and the two have different speakers
\* that are both known.
Interrupting(S) ==
  { j \in 2..Len(S) :
      /\ Start(S[j]) < End(S[j - 1])
      /\ Speaker(S[j]) # "unknown" /\ Speaker(S[j - 1]) # "unknown"
      /\ Speaker(S[j]) # Speaker(S[j - 1]) }

\* C15: count_interruptions returns the number of pairs of utterances
\* adjacent in start-time order in which the later one starts strictly
\* before the earlier one ends and the two have different speakers that are
\* both known; an overlap involving an unknown speaker or the same speaker
\* is not counted.
C15_Interruptions ==
  (fn \in CountingFunctions /\ ret.status = "returned") =>
    ret.value = Cardinality(Interrupting(InStartOrder(args.segments)))

Assessed == fn = "process_call_assessment" /\ ret.status = "returned"

\* C16: for the end-to-end scenario (agent "Zdravstvuyte, chem mogu
\* pomoch?" 0-2, customer "U menya problema s kartoy" 2-5, agent "Ponimayu,
\* reshim. Spasibo za obrashchenie" 5-9, language ru), check_greeting on the
\* agent text returns true and check_closing on the agent text returns true.
C16_ScenarioGreetingAndClosing ==
  Assessed => (ret.value.greeting = TRUE /\ ret.value.closing = TRUE)

DurationAdjustment(d) ==
  IF 180000 <= d /\ d <= 480000 THEN 10000
  ELSE IF d > 600000 THEN -10000
  ELSE IF d < 60000 THEN -5000
  ELSE 0

\* C18: the efficiency score's call-duration bonus of +10 is given exactly
\* for durations d with 180 <= d <= 480: d = 180 and d = 480 receive it,
\* d = 179.999 and d = 480.001 do not; the other bands are -10 for d > 600,
\* -5 for d < 60 and no adjustment otherwise.  (Read off the score of a call
\* without response times: 70, less 5 per interruption, plus the
\* adjustment.)
C18_DurationBands ==
  (/\ fn = "_calculate_efficiency_score" /\ ret.status = "returned"
   /\ args.response_times = << >>
   /\ "duration" \in DOMAIN args.transcription) =>
    LET d == args.transcription.duration
        without == 70000 - 5000 * args.interruptions
    IN /\ ret.value = without + DurationAdjustment(d)
       /\ (ret.value = without + 10000) <=> (180000 <= d /\ d <= 480000)
       /\ d \in {180000, 480000} => ret.value = without + 10000
       /\ d \in {179999, 480001} => ret.value = without

\* C18, its case: a call of exactly 480 seconds, without interruptions,
\* scores 80.
C18_Witness ==
  /\ fn = "_calculate_efficiency_score" /\ ret.status = "returned"
  /\ args.response_times = << >> /\ args.interruptions = 0
  /\ "duration" \in DOMAIN args.transcription
  /\ args.transcription.duration = 480000
  /\ ret.value = 80000


\* The category scores calculate_total_score computes for a call analysis that
\* has every required key.
EmotionScoreOf(a) ==
  _calculate_emotion_score(a.emotions, a.emotion_progression)

OtherScoresOf(a) ==
  [resolution |-> 1000 * a.resolution.resolution_score,
   communication |-> _calculate_communication_score(
                       a.worker_text, a.response_times, a.interruptions),
   professionalism |-> _calculate_professionalism_score(
                         a.worker_text, a.greeting, a.closing),
   empathy |-> _calculate_empathy_score(
                 a.worker_text, a.emotions, Get(a, "language", "ru")),
   efficiency |-> _calculate_efficiency_score(
                    a.response_times, a.interruptions,
                    Get(a, "transcription", << >>))]

\* Two served calls that returned, with equal scores in the five categories
\* other than emotion.
OthersEqual(i, j) ==
  /\ scored[i].result.status = "returned"
  /\ scored[j].result.status = "returned"
  /\ OtherScoresOf(scored[i].call_analysis)
       = OtherScoresOf(scored[j].call_analysis)

\* C19: of two call analyses with equal resolution, communication,
\* professionalism, empathy and efficiency scores, the one with the lower (or
\* equal) emotion score gets the lower (or equal) returned total_score.
C19_TotalMonotoneInEmotion ==
  \A i, j \in DOMAIN scored :
    ( /\ OthersEqual(i, j)
      /\ EmotionScoreOf(scored[i].call_analysis)
           <= EmotionScoreOf(scored[j].call_analysis) )
    => scored[i].result.value.total_score
         <= scored[j].result.value.total_score

\* Two calls with equal other scores, a strictly lower emotion score and a
\* strictly lower total have been served.
C19_Witness ==
  \E i, j \in DOMAIN scored :
    /\ OthersEqual(i, j)
    /\ EmotionScoreOf(scored[i].call_analysis)
         < EmotionScoreOf(scored[j].call_analysis)
    /\ scored[i].result.value.total_score
         < scored[j].result.value.total_score


\* C20: calculate_total_score depends on its argument only: whenever one
\* engine has served two calls on identical call analyses, in any order and
\* with any other calls in between, the two calls gave identical results
\* (scores, grade, strengths, improvements and detailed analysis, or the same
\* exception).
C20_SameAnalysisSameResult ==
  \A i, j \in DOMAIN scored :
    scored[i].call_analysis = scored[j].call_analysis
      => scored[i].result = scored[j].result

\* The engine has scored an analysis, then a different one, then the first
\* one again, and returned a result for it both times.
C20_Witness ==
  /\ Len(scored) = 3
  /\ scored[1].call_analysis = scored[3].call_analysis
  /\ scored[2].call_analysis # scored[1].call_analysis
  /\ scored[2].result # scored[1].result
  /\ scored[1].result.status = "returned"
  /\ scored[3].result = scored[1].result


\* C21: the engine's six weights are 0.25, 0.25, 0.20, 0.15, 0.10 and 0.05,
\* they sum to 1.0, and every returned total_score is the sum of the six
\* category scores weighted by exactly these (rounded to one decimal).
C21_WeightsSumToOne ==
  LET w == scoring_engine.weights
  IN /\ w = [emotion |-> 25, resolution |-> 25, communication |-> 20,
             professionalism |-> 15, empathy |-> 10, efficiency |-> 5]
     /\ w.emotion + w.resolution + w.communication + w.professionalism
          + w.empathy + w.efficiency = 100
     /\ \A i \in DOMAIN scored :
          scored[i].result.status = "returned" =>
            LET a == scored[i].call_analysis
                o == OtherScoresOf(a)
            IN scored[i].result.value.total_score
                 = RoundToTenths(25 * EmotionScoreOf(a) + 25 * o.resolution
                                 + 20 * o.communication
                                 + 15 * o.professionalism + 10 * o.empathy
                                 + 5 * o.efficiency, 10000)

\* The engine has returned a total for an analysis whose six category scores
\* are not all the same, so that the weights matter.
C21_Witness ==
  \E i \in DOMAIN scored :
    /\ scored[i].result.status = "returned"
    /\ scored[i].result.value.total_score > 0
    /\ LET a == scored[i].call_analysis
           o == OtherScoresOf(a)
       IN /\ EmotionScoreOf(a) # o.efficiency
          /\ o.communication # o.professionalism


\* C22: for a language code that has no lexicon, every lexicon lookup
\* (sentiment keywords, resolution keywords, greeting, closing, empathy
\* phrases) gives the output it gives for ru on the same text.
C22_UnsupportedLanguageAsRussian ==
  ( /\ fn \in LookupFunctions
    /\ ret.status = "returned"
    /\ args.language \notin {"ru", "kk"} )
  => ret.value = Lookup(fn, args.text, "ru")

\* A lookup for a language without a lexicon has returned, on a text for
\* which the Russian and the Kazakh lexicons give different outputs.
C22_Witness ==
  /\ fn \in LookupFunctions
  /\ ret.status = "returned"
  /\ args.language \notin {"ru", "kk"}
  /\ ret.value # Lookup(fn, args.text, "kk")


\* The recognizer of the call under assessment heard nothing: it returned an
\* empty text and no segments; every component is available.
EmptyTranscript ==
  /\ pipeline.pc # "idle"
  /\ pipeline.available = AllAvailable
  /\ pipeline.recognizer.file_exists /\ ~pipeline.recognizer.raises
  /\ pipeline.recognizer.result.text = << >>
  /\ pipeline.recognizer.result.segments = << >>

\* C23: when the transcript is empty, steps 1 to 5 raise no error and work
\* on that transcript, not on another one: both attributed texts are empty,
\* the sentiment is neutral with confidence 0.5, the resolution is unclear
\* with score 50, there are no response times and no interruptions, and
\* greeting and closing are false.
C23_EmptyTranscriptNeutral ==
  (EmptyTranscript /\ pipeline.pc \notin {"transcribe", "analyze"}) =>
    /\ "call_analysis" \in DOMAIN pipeline
    /\ pipeline.transcription.text = << >>
    /\ pipeline.transcription.segments = << >>
    /\ pipeline.call_analysis.worker_text = << >>
    /\ pipeline.call_analysis.customer_text = << >>
    /\ pipeline.call_analysis.emotions.sentiment = "neutral"
    /\ pipeline.call_analysis.emotions.sentiment_confidence = 500
    /\ pipeline.call_analysis.resolution.status = "unclear"
    /\ pipeline.call_analysis.resolution.resolution_score = 50
    /\ pipeline.call_analysis.response_times = << >>
    /\ pipeline.call_analysis.interruptions = 0
    /\ ~pipeline.call_analysis.greeting
    /\ ~pipeline.call_analysis.closing

RecognizerFails ==
  /\ pipeline.pc # "idle"
  /\ pipeline.available.speech
  /\ ~pipeline.recognizer.file_exists \/ pipeline.recognizer.raises

\* C24: when the transcription collaborator fails (the audio file cannot be
\* read, or the model raises), the process is not ended by that failure: it
\* goes on to the analysis steps with a transcript, and if nothing later
\* fails the call ends with an assessment.
C24_TranscriptionFailureNotFatal ==
  (RecognizerFails /\ pipeline.pc # "transcribe") =>
    /\ ~(pipeline.pc = "failed" /\ pipeline.failed_in = "transcribe")
    /\ "transcription" \in DOMAIN pipeline

\* The engine's own result for the analysis of this call, when the engine
\* served it last.
EngineComputed(record) ==
  /\ scored # << >>
  /\ scored[Len(scored)].call_analysis = record.analysis
  /\ scored[Len(scored)].result.status = "returned"
  /\ scored[Len(scored)].result.value = record.scores

\* C25: a call in which a stage raised ends with a failed-assessment response
\* and no record of it in the data directory; a record is written only
\* after the scoring engine completed on the call's analysis, it is
\* complete, and it holds the scores the engine returned.
C25_RecordOnlyAfterEngineSuccess ==
  /\ pipeline.pc = "failed" =>
       /\ pipeline.response.status_code = 500
       /\ pipeline.records = << >>
  /\ \A i \in DOMAIN pipeline.records :
       /\ pipeline.records[i].complete
       /\ pipeline.engine
       /\ EngineComputed(pipeline.records[i])

\* C26: within one assessment the transcription model is invoked at most
\* once and the sentiment classifier is invoked at most once, however many
\* segments the transcript has and whether or not a language was supplied.
C26_ExternalModelsAtMostOnce ==
  pipeline.pc \notin {"idle", "transcribe"} =>
    /\ pipeline.asr_calls <= 1
    /\ pipeline.classifier_calls <= 1

Range(seq) == { seq[i] : i \in DOMAIN seq }

\* The phrases of one lexicon present in a text, each counted once.
PhrasesPresent(lexicon, text) ==
  Cardinality({ phrase \in Range(lexicon) : In(phrase, Lower(text)) })

ResponseBand(response_times) ==
  LET n == Len(response_times)
      total == Sum(response_times)
  IN IF n = 0 THEN -5
     ELSE IF total > 10 * n THEN -20
     ELSE IF total > 5 * n THEN -10
     ELSE IF total < 2 * n THEN 10
     ELSE 0

LanguageRoutedCommunication(call_analysis) ==
  LET clarity == GetLang(clarity_phrases, call_analysis.language)
      unclear == GetLang(unclear_phrases, call_analysis.language)
  IN Max(0, Min(100,
       70 - 8 * call_analysis.interruptions
          + ResponseBand(call_analysis.response_times)
          + Min(15, 3 * PhrasesPresent(clarity, call_analysis.worker_text))
          - Min(20, 5 * PhrasesPresent(unclear, call_analysis.worker_text))))

\* C27: the communication score is 70 - 8 per interruption + the response
\* time band (-20 above 10 s of mean, -10 above 5 s, +10 below 2 s, 0
\* otherwise, -5 without response times) + at most 15 of clarity bonus - at
\* most 20 of unclear penalty, clamped to 0..100, the clarity and unclear
\* phrases being those of the lexicon of the call's language.
C27_CommunicationScoreLanguageRouted ==
  (Scored /\ ret.status = "returned") =>
    ret.value.communication_score = 10 * LanguageRoutedCommunication(args)

RudePhrases ==
  Range(unprofessional_indicators.ru) \cup Range(unprofessional_indicators.kk)

\* The rude phrases present in a text, each counted once.
RudenessHits(text) ==
  Cardinality({ phrase \in RudePhrases : In(phrase, Lower(text)) })

OneHitPerRudePhrase(call_analysis) ==
  LET text == Lower(call_analysis.worker_text)
  IN Max(0, Min(100,
       50 + (IF call_analysis.greeting THEN 20 ELSE 0)
          + (IF call_analysis.closing THEN 20 ELSE 0)
          + Min(20, 3 * HitsAllLanguages(professional_indicators, text))
          - Min(40, 15 * RudenessHits(call_analysis.worker_text))
          + 5 * HitsAllLanguages(polite_phrases, text)))

\* C28: the professionalism score is 50 + 20 for a greeting + 20 for a
\* closing + at most 20 of politeness bonus - at most 40 of rudeness penalty
\* (15 per hit) + 5 per extra-polite phrase, clamped to 0..100, where a rude
\* phrase present in the agent text is one hit and the extra-polite bonus is
\* not capped.
C28_ProfessionalismOneHitPerPhrase ==
  (Scored /\ ret.status = "returned") =>
    ret.value.professionalism_score = 10 * OneHitPerRudePhrase(args)

\* The party separate_speakers takes from the speaker hint of a segment,
\* "unknown" when the hint names none.
SeparatedLabel(segment) ==
  IF HintLabel(segment) = "None" THEN "unknown" ELSE HintLabel(segment)

SpeakerFunctions ==
  {"separate_speakers", "calculate_response_times", "count_interruptions"}

\* C29: for every segment with a speaker hint, the label under which
\* calculate_response_times and count_interruptions read the segment is the
\* party that separate_speakers takes from the hint: the numeric hint 0 is
\* the customer in both, and a string hint names the same party, or none,
\* in both.
C29_SameSpeakerLabel ==
  (fn \in SpeakerFunctions /\ ret.status = "returned") =>
    \A i \in DOMAIN args.segments :
      "speaker" \in DOMAIN args.segments[i] =>
        normalize_speaker(args.segments[i]) = SeparatedLabel(args.segments[i])

\* A call of main.py whose transcript has segments and none of them carries
\* a speaker key, after steps 2 to 5.
HintlessCall ==
  /\ pipeline.pc \in {"score", "save", "done"}
  /\ pipeline.app = "main"
  /\ pipeline.transcription.segments # << >>
  /\ \A i \in DOMAIN pipeline.transcription.segments :
       DOMAIN pipeline.transcription.segments[i] \cap
         {"speaker", "speaker_label", "spk", "speaker_id"} = {}

NoDataCommunication(worker_text) ==
  LET text == Lower(worker_text)
  IN Max(0, Min(100,
       70 - 5 + Min(15, 3 * HitsAllLanguages(clarity_phrases, text))
              - Min(20, 5 * HitsAllLanguages(unclear_phrases, text))))

\* After a hintless call: no response time, no interruption, every segment's
\* words in the text of the party Party names, and the communication score
\* computed with the no-data adjustment of -5 and no interruption penalty.
HintlessMetrics(Party(_)) ==
  HintlessCall =>
    LET segments == pipeline.transcription.segments
        label == [i \in DOMAIN segments |-> Party(segments[i])]
    IN /\ pipeline.call_analysis.response_times = << >>
       /\ pipeline.call_analysis.interruptions = 0
       /\ Words(pipeline.call_analysis.worker_text)
            = WordsOf(segments, label, "worker")
       /\ Words(pipeline.call_analysis.customer_text)
            = WordsOf(segments, label, "customer")
       /\ pipeline.pc \in {"save", "done"} =>
            pipeline.scores.communication_score
              = 10 * NoDataCommunication(pipeline.call_analysis.worker_text)

\* C30 as stated: when no segment of the transcript carries a speaker hint,
\* the response times are the empty list and the interruption count is 0
\* whatever the timings and the texts are, although separate_speakers has
\* given every segment to the agent or to the customer by lexical scoring;
\* the communication score then takes the no-data adjustment of -5.
C30_NoHintsLexicalOnly == HintlessMetrics(LexicalParty)

\* C30, amended: when no segment of the transcript carries a speaker hint,
\* the response times are the empty list and the interruption count is 0
\* whatever the timings and the texts are, although separate_speakers has
\* given every segment to the agent or to the customer, by a speaker marker
\* in its text ("agent:", "customer:" and their synonyms) and otherwise by
\* lexical scoring; the communication score then takes the no-data
\* adjustment of -5.
C30_NoHintsNoTimingMetrics == HintlessMetrics(HintThenMarkerThenLexical)

\* A finished call whose two hintless segments overlap and went one to each
\* party: with speaker labels there would be an interruption to count.
C30_Witness ==
  /\ HintlessCall
  /\ pipeline.pc = "done"
  /\ Len(pipeline.transcription.segments) = 2
  /\ pipeline.transcription.segments[2].start
       < pipeline.transcription.segments[1].end
  /\ pipeline.transcription.segments[1].start
       < pipeline.transcription.segments[2].start
  /\ pipeline.call_analysis.worker_text # << >>
  /\ pipeline.call_analysis.customer_text # << >>
  /\ pipeline.scores.communication_score = 680

=============================================================================
